---- MODULE Spec2Model ----
(***************************************************************************)
(* A model of the audit scripts of the repository:                         *)
(*   html_parser.py / history_parser.py   the classifier, the report file  *)
(*   src/quick-ux-test.py                 the UX test run                  *)
(*   test_history_headers.py              the header validation run        *)
(* Each script is a sequential program; its position is a pc variable and  *)
(* every library call that can fail is a nondeterministic choice between   *)
(* returning and raising.  Text is a sequence of one-character strings.    *)
(***************************************************************************)
EXTENDS Integers, Sequences, FiniteSets, TLC

(***************************************************************************)
(* Bounds of the model.                                                    *)
(***************************************************************************)
MaxClasses == 3          \* class tokens on one node
MaxHeadings == 3         \* headings walked by the hierarchy check
MaxImages == 5           \* img elements counted by the accessibility scan
MaxFormInputs == 4       \* input/textarea/select elements counted by the scan
MaxLandmarks == 5        \* landmark elements counted by the scan
MaxHeadingCount == 5     \* headings (and so hierarchy issues) counted by the scan

VARIABLES
    script,         \* classifier: which parser script's function is called
    tag,            \* classifier: the node handed to get_mui_component
    cl_pc,          \* classifier: "call" before the call, "done" after it
    component,      \* classifier: outcome of the call
    headings,       \* heading walk: tag names of the headings, document order
    h_idx,          \* heading walk: position of forEach
    lastLevel,      \* heading walk: let lastLevel
    headingIssues,  \* heading walk: let headingIssues
    h_result,       \* heading walk: the returned headings record
    pc,                     \* UX test: position in test_collection_app_ux
    browser,                \* UX test: "none", "open" or "closed"
    pending,                \* UX test: how the try block was left
    outcome,                \* UX test: how the function ended
    load_time,              \* UX test: measured load time, in milliseconds
    perf_metrics,           \* UX test: what the performance evaluate returned
    results_performance,    \* UX test: results['performance']
    buttons,                \* UX test: len(buttons), the visible buttons found
    i,                      \* UX test: iterations done in the current loop
    interaction_results,    \* UX test: one entry per probed button
    clicked,                \* UX test: indices of buttons click() was called on
    inputs,                 \* UX test: len(inputs), the visible inputs found
    input_results,          \* UX test: one entry per probed input
    button_env,             \* UX test: what each probed button did (kind, errlen)
    input_env,              \* UX test: what each probed input did (kind, errlen)
    results_interactions,   \* UX test: results['interactions']['summary']
    accessibility_data,     \* UX test: what the accessibility evaluate returned
    accessibility_score,    \* UX test: the score accumulated so far (a rational)
    results_accessibility,  \* UX test: results['accessibility']
    nav_links,              \* UX test: len(nav_links)
    journey_results,        \* UX test: one entry per followed link
    responsive_results,     \* UX test: hasLayoutIssues per viewport checked
    page_errors,            \* UX test: len(page_errors)
    issues,                 \* UX test: the issues list
    recommendations,        \* UX test: the recommendations list
    interaction_success_rate, \* UX test: a rational, in percent
    json_file,              \* UX test: state of ux-test-results.json
    saved_summary,          \* UX test: the 'summary' object of the saved file
    page_buttons,           \* page under test: what each visible button does
    page_inputs,            \* page under test: what each visible input does
    page_links,             \* page under test: what each navigation link does
    page_scroll,            \* page under test: horizontal scroll per viewport
    hv_pc,                  \* header validation: position in the script
    hv_browser,             \* header validation: "none", "open" or "closed"
    page_theads,            \* header validation: <thead> elements on the page
    page_headers,           \* header validation: where the page shows each text
    header_counts,          \* header validation: the header_counts dict
    headers_in_thead,       \* header validation: "unset", "True" or "False"
    total_issues,           \* header validation: total_issues
    hv_pending,             \* header validation: what test_history_table is returning
    success,                \* header validation: success in main()
    exit_status,            \* header validation: exit status of the process
    ps_pc,            \* parser scripts: position in the running script
    ps_script,        \* parser scripts: the script that runs
    page_html,        \* parser scripts: the landmarks page.html holds
    nodes,            \* parser scripts: what the lookups returned so far
    ps_outcome,       \* parser scripts: "running", "ok" or "raised"
    application_map,  \* parser scripts: the lines of application_map.md
    map_before,       \* parser scripts: the file when the current run started
    map_initial,      \* parser scripts: the file before the first run
    runs              \* parser scripts: the runs that completed, in order

classifierVars == <<script, tag, cl_pc, component>>
headingVars == <<headings, h_idx, lastLevel, headingIssues, h_result>>
lifeVars == <<browser, pending, outcome>>
perfVars == <<load_time, perf_metrics, results_performance>>
probeVars == <<buttons, i, interaction_results, clicked, inputs, input_results,
               results_interactions, button_env, input_env>>
a11yVars == <<accessibility_data, accessibility_score, results_accessibility>>
journeyVars == <<nav_links, journey_results>>
finalVars == <<responsive_results, page_errors, issues, recommendations,
               interaction_success_rate, json_file, saved_summary>>
pageVars == <<page_buttons, page_inputs, page_links, page_scroll>>
uxVars == <<pc, lifeVars, perfVars, probeVars, a11yVars, journeyVars, finalVars,
            pageVars>>

hvVars == <<hv_pc, hv_browser, page_theads, page_headers, header_counts,
            headers_in_thead, total_issues, hv_pending, success, exit_status>>

mapVars == <<ps_pc, ps_script, page_html, nodes, ps_outcome, application_map,
             map_before, map_initial, runs>>

vars == <<classifierVars, headingVars, uxVars, hvVars, mapVars>>

(***************************************************************************)
(* Generic helpers.                                                        *)
(***************************************************************************)
Min(a, b) == IF a <= b THEN a ELSE b
Max(a, b) == IF a >= b THEN a ELSE b

\* All sequences over S of length at most n.
SeqsUpTo(S, n) == UNION {[1..k -> S] : k \in 0..n}

(***************************************************************************)
(* The component classifier (html_parser.py, history_parser.py).           *)
(***************************************************************************)
Unknown == <<"U", "n", "k", "n", "o", "w", "n">>
MuiPrefix == <<"M", "u", "i">>
Separator == "-"

\* Class tokens as they occur in the class attribute of a parsed node.
ClassTokens ==
    { <<"f", "o", "o">>,
      <<"M", "u", "i", "B", "-", "r">>,
      <<"M", "u", "i", "T", "-", "r", "-", "x">>,
      <<"M", "u", "i">>,
      <<"M", "u">>,
      <<"x", "M", "u", "i", "B">>,
      <<"M", "u", "i", "-", "r">>,
      <<"m", "u", "i", "B">>,
      <<"M", "u", "i", "G">> }

\* soup.find(...) yields None or a Tag; a Tag without a class attribute has
\* the empty class list (tag.get("class", [])).
NoneTag == [present |-> FALSE, class |-> <<>>]
PresentTag(classes) == [present |-> TRUE, class |-> classes]
Tags == {NoneTag} \cup {PresentTag(c) : c \in SeqsUpTo(ClassTokens, MaxClasses)}

Returned(v) == [raised |-> FALSE, value |-> v]
Raised == [raised |-> TRUE, value |-> <<>>]
NotCalled == [raised |-> FALSE, value |-> <<>>]

\* Truth value of a node: None is falsy, a Tag is truthy.
Truthy(t) == t.present

\* tag.get("class", []): an attribute access, AttributeError on None.
TagGetClass(t) == IF t.present THEN Returned(t.class) ELSE Raised

\* cls.startswith(prefix)
StartsWith(s, prefix) ==
    /\ Len(s) >= Len(prefix)
    /\ SubSeq(s, 1, Len(prefix)) = prefix

\* cls.split("-")[0]: the text before the first separator, all of it when
\* there is none.
RECURSIVE SplitFirst(_)
SplitFirst(s) ==
    IF s = <<>> THEN <<>>
    ELSE IF Head(s) = Separator THEN <<>>
    ELSE <<Head(s)>> \o SplitFirst(Tail(s))

\* for cls in classes: if cls.startswith("Mui"): return cls.split("-")[0]
RECURSIVE ScanLast(_)
ScanLast(classes) ==
    IF classes = <<>> THEN Returned(Unknown)
    ELSE IF StartsWith(classes[Len(classes)], MuiPrefix)
         THEN Returned(SplitFirst(classes[Len(classes)]))
         ELSE ScanLast(SubSeq(classes, 1, Len(classes) - 1))

RECURSIVE ScanClasses(_)
ScanClasses(classes) ==
    IF classes = <<>> THEN Returned(Unknown)
    ELSE IF StartsWith(Head(classes), MuiPrefix)
         THEN Returned(SplitFirst(Head(classes)))
         ELSE ScanClasses(Tail(classes))

\* The function without its guard on an absent node.
get_mui_component_unguarded(t) ==
    LET classes == TagGetClass(t)
    IN  IF classes.raised THEN Raised ELSE ScanClasses(classes.value)

\* html_parser.py, get_mui_component
get_mui_component(t) ==
    IF ~Truthy(t) THEN Returned(Unknown)
    ELSE LET classes == TagGetClass(t)
         IN  IF classes.raised THEN Raised ELSE ScanClasses(classes.value)

\* history_parser.py, get_mui_component
history_get_mui_component(t) ==
    IF ~Truthy(t) THEN Returned(Unknown)
    ELSE LET classes == TagGetClass(t)
         IN  IF classes.raised THEN Raised ELSE ScanClasses(classes.value)

ParserScripts == {"html_parser", "history_parser"}

ClassifierInit ==
    /\ script \in ParserScripts
    /\ tag \in Tags
    /\ cl_pc = "call"
    /\ component = NotCalled

ClassifierIdle ==
    /\ script = "html_parser"
    /\ tag = NoneTag
    /\ cl_pc = "idle"
    /\ component = NotCalled

\* A call get_mui_component(node) in html_parser.py.
ClassifyHtml ==
    /\ cl_pc = "call"
    /\ script = "html_parser"
    /\ component' = get_mui_component(tag)
    /\ cl_pc' = "done"
    /\ UNCHANGED <<script, tag, headingVars, uxVars, hvVars, mapVars>>

\* A call get_mui_component(node) in history_parser.py.
ClassifyHistory ==
    /\ cl_pc = "call"
    /\ script = "history_parser"
    /\ component' = history_get_mui_component(tag)
    /\ cl_pc' = "done"
    /\ UNCHANGED <<script, tag, headingVars, uxVars, hvVars, mapVars>>

ClassifierNext ==
    \/ ClassifyHtml
    \/ ClassifyHistory

(***************************************************************************)
(* The heading-hierarchy walk of the accessibility scan                    *)
(* (src/quick-ux-test.py, the page.evaluate script at lines 269-281).      *)
(***************************************************************************)
HeadingTags == {"H1", "H2", "H3", "H4", "H5", "H6"}

\* parseInt(heading.tagName.charAt(1))
TagLevel(t) ==
    CASE t = "H1" -> 1
      [] t = "H2" -> 2
      [] t = "H3" -> 3
      [] t = "H4" -> 4
      [] t = "H5" -> 5
      [] t = "H6" -> 6

NoHeadingResult == [returned |-> FALSE, total |-> 0, hierarchyIssues |-> 0]

\* The walk, were it to start from the level of an h1.
HeadingInitFromOne ==
    /\ headings \in SeqsUpTo(HeadingTags, MaxHeadings)
    /\ h_idx = 1
    /\ lastLevel = 1
    /\ headingIssues = 0
    /\ h_result = NoHeadingResult

\* lines 269-271: the headings of the page, lastLevel = 0, headingIssues = 0
HeadingInit ==
    /\ headings \in SeqsUpTo(HeadingTags, MaxHeadings)
    /\ h_idx = 1
    /\ lastLevel = 0
    /\ headingIssues = 0
    /\ h_result = NoHeadingResult

HeadingIdle ==
    /\ headings = <<>>
    /\ h_idx = 0
    /\ lastLevel = 0
    /\ headingIssues = 0
    /\ h_result = NoHeadingResult

\* if (level > lastLevel + 1)
IsJumpInclusive(level, last) == level >= last + 1
IsJump(level, last) == level > last + 1

\* One iteration of headings.forEach(heading => {...}).
HeadingStep ==
    /\ h_idx \in 1..Len(headings)
    /\ ~h_result.returned
    /\ LET level == TagLevel(headings[h_idx])
       IN  /\ headingIssues' =
                 IF IsJump(level, lastLevel) THEN headingIssues + 1
                 ELSE headingIssues
           /\ lastLevel' = level
    /\ h_idx' = h_idx + 1
    /\ UNCHANGED <<headings, h_result, classifierVars, uxVars, hvVars, mapVars>>

\* headings: { total: headings.length, hierarchyIssues: headingIssues }
HeadingReturn ==
    /\ h_idx = Len(headings) + 1
    /\ ~h_result.returned
    /\ h_result' = [returned |-> TRUE, total |-> Len(headings),
                    hierarchyIssues |-> headingIssues]
    /\ UNCHANGED <<headings, h_idx, lastLevel, headingIssues,
                   classifierVars, uxVars, hvVars, mapVars>>

HeadingNext ==
    \/ HeadingStep
    \/ HeadingReturn

(***************************************************************************)
(* Exact arithmetic for the accessibility score: a value is n/d in lowest  *)
(* terms with d > 0.  Python divides and multiplies in double precision;   *)
(* for the counts of this model the double result rounds and compares as   *)
(* the exact value does.                                                   *)
(***************************************************************************)
RECURSIVE GCD(_, _)
GCD(a, b) == IF b = 0 THEN a ELSE GCD(b, a % b)

Rat(n, d) == LET g == GCD(IF n < 0 THEN -n ELSE n, d)
             IN  [n |-> n \div g, d |-> d \div g]
RatInt(k) == [n |-> k, d |-> 1]
RatAdd(x, y) == Rat(x.n * y.d + y.n * x.d, x.d * y.d)
RatMul(x, k) == Rat(x.n * k, x.d)
RatGeq(x, k) == x.n >= k * x.d
RatLess(x, k) == x.n < k * x.d

\* round(x): to the nearest integer, a tie to the even one.
RoundHalfEven(x) ==
    LET fl == x.n \div x.d
        twice == 2 * (x.n - fl * x.d)
    IN  IF twice < x.d THEN fl
        ELSE IF twice > x.d THEN fl + 1
        ELSE IF fl % 2 = 0 THEN fl ELSE fl + 1

(***************************************************************************)
(* The accessibility score (src/quick-ux-test.py, lines 291-322).          *)
(***************************************************************************)
\* focusable elements that are not form inputs (links, buttons, tabindex)
OtherFocusable == {0, 2}

\* What the accessibility evaluate can return: counts of one document.
\* Every form input is also a focusable element.
A11yRecord(it, wa, ft, lb, ht, hi, lm, of) ==
    [images     |-> [total |-> it, withAlt |-> wa],
     forms      |-> [total |-> ft, labeled |-> lb],
     headings   |-> [total |-> ht, hierarchyIssues |-> hi],
     navigation |-> [focusableElements |-> ft + of, landmarks |-> lm]]

NoA11yData ==
    [images     |-> [total |-> 0, withAlt |-> 0],
     forms      |-> [total |-> 0, labeled |-> 0],
     headings   |-> [total |-> 0, hierarchyIssues |-> 0],
     navigation |-> [focusableElements |-> 0, landmarks |-> 0]]

\* lines 296-299
ImagePointsNoneZero(d) ==
    IF d.images.total > 0
    THEN RatMul(Rat(d.images.withAlt, d.images.total), 20)
    ELSE RatInt(0)

ImagePoints(d) ==
    IF d.images.total > 0
    THEN RatMul(Rat(d.images.withAlt, d.images.total), 20)
    ELSE RatInt(20)

\* lines 302-305
FormPoints(d) ==
    IF d.forms.total > 0
    THEN RatMul(Rat(d.forms.labeled, d.forms.total), 30)
    ELSE RatInt(30)

\* line 308
LandmarkPointsUncapped(d) == RatInt(d.navigation.landmarks * 5)

LandmarkPoints(d) == RatInt(Min(d.navigation.landmarks * 5, 20))

\* lines 311-312
HeadingPoints(d) ==
    IF d.headings.total > 0
    THEN RatInt(Max(0, 20 - d.headings.hierarchyIssues * 5))
    ELSE RatInt(0)

\* lines 315-316
FocusPoints(d) ==
    IF d.navigation.focusableElements > 0 THEN RatInt(10) ELSE RatInt(0)

\* line 321: the grade is taken from the unrounded score
GradeOf(score) ==
    IF RatGeq(score, 90) THEN "A"
    ELSE IF RatGeq(score, 80) THEN "B"
    ELSE IF RatGeq(score, 70) THEN "C"
    ELSE "D"

\* The whole computation of lines 292-316 on one evaluate result.
AccessibilityScore(d) ==
    RatAdd(RatAdd(RatAdd(RatAdd(RatAdd(RatInt(0), ImagePoints(d)),
                                FormPoints(d)),
                         LandmarkPoints(d)),
                  HeadingPoints(d)),
           FocusPoints(d))

NoA11yReport == [reported |-> FALSE, score |-> 0, grade |-> ""]

(***************************************************************************)
(* The UX test run (src/quick-ux-test.py, test_collection_app_ux).         *)
(* A step that calls the browser takes the set of outcomes the environment *)
(* can produce as a parameter: a specification varies in full the part of  *)
(* the environment its claims are about.                                   *)
(***************************************************************************)
MsPerSecond == 1000
Viewports == 3

\* A page that shows no horizontal scroll at any viewport.
NoScroll == [v \in 1..Viewports |-> FALSE]

\* A page without buttons, inputs and navigation links.
NoPage ==
    /\ page_buttons = <<>>
    /\ page_inputs = <<>>
    /\ page_links = <<>>
    /\ page_scroll = NoScroll

\* Load times the navigation can measure, in milliseconds (below the 30 s
\* navigation timeout).
LoadTimes == {1500, 2000, 3000, 4000, 5000}

\* What the performance evaluate (lines 79-93) can return.
PerfSamples ==
    { [pageLoad |-> 800, domReady |-> 600, firstContentfulPaint |-> 300,
       firstPaint |-> 200, resourceCount |-> 12],
      [pageLoad |-> 9000, domReady |-> 7000, firstContentfulPaint |-> 0,
       firstPaint |-> 0, resourceCount |-> 90] }
NominalPerfSamples ==
    { [pageLoad |-> 800, domReady |-> 600, firstContentfulPaint |-> 300,
       firstPaint |-> 200, resourceCount |-> 12] }
NoPerfMetrics ==
    [pageLoad |-> 0, domReady |-> 0, firstContentfulPaint |-> 0,
     firstPaint |-> 0, resourceCount |-> 0]

NoPerformance == [set |-> FALSE, totalLoadTime |-> 0, grade |-> ""]
NoSummary == [set |-> FALSE, buttonsFound |-> 0, inputsFound |-> 0,
              successfulClicks |-> 0, successfulInputs |-> 0]

CanFail == {FALSE, TRUE}

\* line 98: load_time is in seconds in the code, in milliseconds here
PerfGradeByPageLoad(t, m) ==
    IF m.pageLoad < 2 * MsPerSecond THEN "excellent"
    ELSE IF m.pageLoad < 4 * MsPerSecond THEN "good"
    ELSE "needs-improvement"

PerfGrade(t, m) ==
    IF t < 2 * MsPerSecond THEN "excellent"
    ELSE IF t < 4 * MsPerSecond THEN "good"
    ELSE "needs-improvement"

\* No 'summary' object: ux-test-results.json was not written by this run.
NoSavedSummary ==
    [set |-> FALSE, performance_grade |-> "", accessibility_score |-> 0,
     interaction_success_rate |-> RatInt(0), issues_count |-> 0,
     recommendations_count |-> 0]

\* The state after lines 18-29: results is empty, nothing is launched.
UxInit ==
    /\ pc = "launch"
    /\ browser = "none"
    /\ pending = "none"
    /\ outcome = "running"
    /\ load_time = 0
    /\ perf_metrics = NoPerfMetrics
    /\ results_performance = NoPerformance
    /\ buttons = 0
    /\ i = 0
    /\ interaction_results = <<>>
    /\ clicked = {}
    /\ inputs = 0
    /\ input_results = <<>>
    /\ button_env = <<>>
    /\ input_env = <<>>
    /\ results_interactions = NoSummary
    /\ accessibility_data = NoA11yData
    /\ accessibility_score = RatInt(0)
    /\ results_accessibility = NoA11yReport
    /\ nav_links = 0
    /\ journey_results = <<>>
    /\ responsive_results = <<>>
    /\ page_errors = 0
    /\ issues = <<>>
    /\ recommendations = <<>>
    /\ interaction_success_rate = RatInt(0)
    /\ json_file \in {"absent", "previous"}
    /\ saved_summary = NoSavedSummary

UxIdle ==
    /\ pc = "idle"
    /\ NoPage
    /\ browser = "none"
    /\ pending = "none"
    /\ outcome = "running"
    /\ load_time = 0
    /\ perf_metrics = NoPerfMetrics
    /\ results_performance = NoPerformance
    /\ buttons = 0
    /\ i = 0
    /\ interaction_results = <<>>
    /\ clicked = {}
    /\ inputs = 0
    /\ input_results = <<>>
    /\ button_env = <<>>
    /\ input_env = <<>>
    /\ results_interactions = NoSummary
    /\ accessibility_data = NoA11yData
    /\ accessibility_score = RatInt(0)
    /\ results_accessibility = NoA11yReport
    /\ nav_links = 0
    /\ journey_results = <<>>
    /\ responsive_results = <<>>
    /\ page_errors = 0
    /\ issues = <<>>
    /\ recommendations = <<>>
    /\ interaction_success_rate = RatInt(0)
    /\ json_file = "absent"
    /\ saved_summary = NoSavedSummary

\* The state at line 159 of a run whose earlier steps all succeeded.
ProbeInit ==
    /\ pc = "query_buttons"
    /\ browser = "open"
    /\ pending = "none"
    /\ outcome = "running"
    /\ load_time = 1500
    /\ perf_metrics \in NominalPerfSamples
    /\ results_performance =
           [set |-> TRUE, totalLoadTime |-> 1500, grade |-> "excellent"]
    /\ buttons = 0
    /\ i = 0
    /\ interaction_results = <<>>
    /\ clicked = {}
    /\ inputs = 0
    /\ input_results = <<>>
    /\ button_env = <<>>
    /\ input_env = <<>>
    /\ results_interactions = NoSummary
    /\ accessibility_data = NoA11yData
    /\ accessibility_score = RatInt(0)
    /\ results_accessibility = NoA11yReport
    /\ nav_links = 0
    /\ journey_results = <<>>
    /\ responsive_results = <<>>
    /\ page_errors = 0
    /\ issues = <<>>
    /\ recommendations = <<>>
    /\ interaction_success_rate = RatInt(0)
    /\ json_file = "absent"
    /\ saved_summary = NoSavedSummary

\* The state at line 292, the accessibility evaluate result in hand.
A11yInit ==
    /\ pc = "a11y_images"
    /\ NoPage
    /\ browser = "open"
    /\ pending = "none"
    /\ outcome = "running"
    /\ load_time = 1500
    /\ perf_metrics \in NominalPerfSamples
    /\ results_performance =
           [set |-> TRUE, totalLoadTime |-> 1500, grade |-> "excellent"]
    /\ buttons = 0
    /\ i = 0
    /\ interaction_results = <<>>
    /\ clicked = {}
    /\ inputs = 0
    /\ input_results = <<>>
    /\ button_env = <<>>
    /\ input_env = <<>>
    /\ results_interactions = [NoSummary EXCEPT !.set = TRUE]
    /\ \E it \in 0..MaxImages, ft \in 0..MaxFormInputs,
          ht \in 0..MaxHeadingCount, lm \in 0..MaxLandmarks,
          of \in OtherFocusable :
          \E wa \in 0..it, lb \in 0..ft, hi \in 0..ht :
             accessibility_data = A11yRecord(it, wa, ft, lb, ht, hi, lm, of)
    /\ accessibility_score = RatInt(0)
    /\ results_accessibility = NoA11yReport
    /\ nav_links = 0
    /\ journey_results = <<>>
    /\ responsive_results = <<>>
    /\ page_errors = 0
    /\ issues = <<>>
    /\ recommendations = <<>>
    /\ interaction_success_rate = RatInt(0)
    /\ json_file = "absent"
    /\ saved_summary = NoSavedSummary

\* What no step of the run changes: the other scripts and the page.
notUx == <<classifierVars, headingVars, hvVars, mapVars, pageVars>>

\* line 33: p.chromium.launch(...); on failure nothing was launched and the
\* exception leaves the function.
Launch(fails) ==
    /\ pc = "launch"
    /\ \E f \in fails :
          IF f THEN /\ pc' = "done"
                    /\ outcome' = "raised"
                    /\ UNCHANGED browser
          ELSE /\ pc' = "new_context"
               /\ browser' = "open"
               /\ UNCHANGED outcome
    /\ UNCHANGED <<pending, perfVars, probeVars, a11yVars, journeyVars,
                   finalVars, notUx>>

\* An exception raised before the try statement is entered (lines 39-66)
\* leaves the function at once: no handler, no finally clause.
LeaveBeforeTry ==
    /\ pc' = "done"
    /\ outcome' = "raised"
    /\ UNCHANGED browser

\* lines 39-42: browser.new_context(...)
NewContext(fails) ==
    /\ pc = "new_context"
    /\ \E f \in fails :
          IF f THEN LeaveBeforeTry
          ELSE /\ pc' = "new_page"
               /\ UNCHANGED <<outcome, browser>>
    /\ UNCHANGED <<pending, perfVars, probeVars, a11yVars, journeyVars,
                   finalVars, notUx>>

\* lines 44-68: context.new_page(), the two handlers are registered and the
\* try statement is entered
NewPage(fails) ==
    /\ pc = "new_page"
    /\ \E f \in fails :
          IF f THEN LeaveBeforeTry
          ELSE /\ pc' = "goto"
               /\ UNCHANGED <<outcome, browser>>
    /\ UNCHANGED <<pending, perfVars, probeVars, a11yVars, journeyVars,
                   finalVars, notUx>>

\* The awaited calls made once the handlers are registered (lines 65-66),
\* browser.close() of line 503 included: while one of them is pending the
\* event loop can run a handler.
RegisteredAwaits ==
    {"goto", "perf_evaluate", "initial_screenshot", "structure",
     "query_buttons", "button_text_content", "button_is_enabled",
     "button_screenshot_before", "button_click", "button_wait",
     "button_screenshot_after", "query_inputs", "input_type",
     "input_placeholder", "input_fill", "input_wait", "input_value",
     "a11y_evaluate", "journey", "link_get_attribute", "link_text_content",
     "link_click", "link_wait", "link_screenshot", "link_go_back",
     "link_settle", "set_viewport_size", "viewport_wait", "layout_evaluate",
     "viewport_screenshot", "reset_viewport", "final_screenshot", "finally"}

\* lines 58-63, handle_error: a page error arrives while a call is awaited
HandleError(max) ==
    /\ browser = "open"
    /\ pc \in RegisteredAwaits
    /\ page_errors < max
    /\ page_errors' = page_errors + 1
    /\ UNCHANGED <<pc, lifeVars, perfVars, probeVars, a11yVars, journeyVars,
                   responsive_results, issues, recommendations,
                   interaction_success_rate, json_file, saved_summary, notUx>>

\* lines 72-76: page.goto(..., timeout=30000) and the wall-clock load time
Goto(times, fails) ==
    /\ pc = "goto"
    /\ \E f \in fails, t \in times :
          IF f THEN /\ pc' = "except"
                    /\ UNCHANGED load_time
          ELSE /\ pc' = "perf_evaluate"
               /\ load_time' = t
    /\ UNCHANGED <<lifeVars, perf_metrics, results_performance, probeVars,
                   a11yVars, journeyVars, finalVars, notUx>>

\* lines 79-103: the performance evaluate and results['performance']
PerfEvaluate(samples, fails) ==
    /\ pc = "perf_evaluate"
    /\ \E f \in fails, m \in samples :
          IF f THEN /\ pc' = "except"
                    /\ UNCHANGED <<perf_metrics, results_performance>>
          ELSE /\ pc' = "initial_screenshot"
               /\ perf_metrics' = m
               /\ results_performance' =
                      [set |-> TRUE, totalLoadTime |-> load_time,
                       grade |-> PerfGrade(load_time, m)]
    /\ UNCHANGED <<lifeVars, load_time, probeVars, a11yVars, journeyVars,
                   finalVars, notUx>>

\* A step that touches nothing of the results: it returns or raises.
PlainStep(from, to, fails) ==
    /\ pc = from
    /\ \E f \in fails : pc' = IF f THEN "except" ELSE to
    /\ UNCHANGED <<lifeVars, perfVars, probeVars, a11yVars, journeyVars,
                   finalVars, notUx>>

\* line 106: page.screenshot(path='ux-test-initial.png')
InitialScreenshot(fails) == PlainStep("initial_screenshot", "structure", fails)

\* lines 112-153: the structure evaluate; its counts are only printed and
\* stored
StructureEvaluate(fails) == PlainStep("structure", "query_buttons", fails)

(***************************************************************************)
(* Interaction testing (lines 155-240).  Inside a loop every awaited call  *)
(* is a step of its own: pc names the call that is pending, and the step   *)
(* is its return or its exception together with the code that runs up to   *)
(* the next awaited call.  What the call does is what the page under test  *)
(* says of the element.                                                    *)
(***************************************************************************)
ButtonCap == 4
InputCap == 3
ErrorCap == 100

\* Lengths of the exception messages str(e) the browser can produce.
ErrorLengths == {40, 150}

\* line 168, text[:25] on a None text: the length of the TypeError message
\* "'NoneType' object is not subscriptable"
NoneSubscript == 38

\* Where the probe of one button can raise: text_content(), text[:25] on a
\* None text, is_enabled(), the screenshot before, click(), the settle wait,
\* the screenshot after.
ButtonStages == {"text_content", "text_none", "is_enabled",
                 "screenshot_before", "click", "wait_for_timeout",
                 "screenshot_after"}

ButtonClicked == [kind |-> "clicked", stage |-> "", errlen |-> 0]
ButtonDisabled == [kind |-> "disabled", stage |-> "", errlen |-> 0]
ProbeRaises(s, n) == [kind |-> "raise", stage |-> s, errlen |-> n]

AllButtonOutcomes ==
    {ButtonClicked, ButtonDisabled, ProbeRaises("text_none", NoneSubscript)}
        \cup {ProbeRaises(s, n) :
                 s \in ButtonStages \ {"text_none"}, n \in ErrorLengths}

\* The element o makes the call of this stage raise.
Raises(o, stage) == o.kind = "raise" /\ o.stage = stage

\* str(e)[:100], on the length of the message
Truncate(n, cap) == Min(n, cap)

\* lines 181-185; the text of the button is not modelled
ButtonSuccess(k) == [button |-> k, success |-> TRUE, error |-> 0]

\* lines 191-195; error holds the length of the stored message
ButtonFailure(k, errlen) ==
    [button |-> k, success |-> FALSE, error |-> Truncate(errlen, ErrorCap)]

\* The slice, were it to keep every element found.
ProbedAll(found, cap) == found

\* buttons[:4]
Probed(found, cap) == Min(found, cap)

\* What a step of the button loop leaves alone, apart from the loop's own
\* variables.
buttonFrame == <<lifeVars, perfVars, buttons, inputs, input_results,
                 results_interactions, input_env, a11yVars, journeyVars,
                 finalVars, notUx>>
inputFrame == <<lifeVars, perfVars, buttons, interaction_results, clicked,
                inputs, results_interactions, button_env, a11yVars,
                journeyVars, finalVars, notUx>>

\* line 159: page.query_selector_all('button:visible'), line 162
QueryButtons(fails) ==
    /\ pc = "query_buttons"
    /\ \E f \in fails :
          IF f THEN /\ pc' = "except"
                    /\ UNCHANGED <<buttons, i, interaction_results>>
          ELSE /\ buttons' = Len(page_buttons)
               /\ i' = 0
               /\ interaction_results' = <<>>
               /\ pc' = IF Probed(Len(page_buttons), ButtonCap) > 0
                        THEN "button_text_content" ELSE "query_inputs"
    /\ UNCHANGED <<lifeVars, perfVars, clicked, inputs, input_results,
                   results_interactions, button_env, input_env, a11yVars,
                   journeyVars, finalVars, notUx>>

\* line 163: the loop goes to button k + 1, or line 198 follows
NextButton(k) ==
    IF k < Probed(buttons, ButtonCap) THEN "button_text_content"
    ELSE "query_inputs"

\* The except clause of the button loop, were it to let the exception go.
ButtonExceptRaises(k, o) ==
    /\ interaction_results' = interaction_results
    /\ pc' = "except"

\* lines 189-195: except Exception as e
ButtonExcept(k, o) ==
    /\ interaction_results' =
           Append(interaction_results, ButtonFailure(k, o.errlen))
    /\ pc' = NextButton(k)

\* An awaited call of the probe of button k raises: the iteration ends in
\* the except clause.
ButtonRaise(k, o) ==
    /\ ButtonExcept(k, o)
    /\ i' = k
    /\ button_env' = Append(button_env, [kind |-> "raise", errlen |-> o.errlen])

\* An awaited call of the button loop that keeps no result: it raises, or
\* the next call is made.
ButtonStep(at, stage, next) ==
    /\ pc = at
    /\ IF Raises(page_buttons[i + 1], stage)
       THEN ButtonRaise(i + 1, page_buttons[i + 1])
       ELSE /\ pc' = next
            /\ UNCHANGED <<i, interaction_results, button_env>>
    /\ UNCHANGED buttonFrame

\* line 165: text = await button.text_content()
ButtonTextContent ==
    /\ ButtonStep("button_text_content", "text_content", "button_is_enabled")
    /\ UNCHANGED clicked

\* lines 166-170: is_enabled = await button.is_enabled(); the print of line
\* 168 raises on a None text; a disabled button ends the iteration with
\* nothing recorded
ButtonIsEnabled ==
    /\ pc = "button_is_enabled"
    /\ LET o == page_buttons[i + 1] IN
          IF Raises(o, "is_enabled") \/ Raises(o, "text_none")
          THEN ButtonRaise(i + 1, o)
          ELSE IF o.kind = "disabled"
          THEN /\ pc' = NextButton(i + 1)
               /\ i' = i + 1
               /\ button_env' =
                      Append(button_env, [kind |-> "disabled", errlen |-> 0])
               /\ UNCHANGED interaction_results
          ELSE /\ pc' = "button_screenshot_before"
               /\ UNCHANGED <<i, interaction_results, button_env>>
    /\ UNCHANGED <<clicked, buttonFrame>>

\* lines 172-175: the screenshot before; when it returns, button.click() is
\* called
ButtonScreenshotBefore ==
    /\ ButtonStep("button_screenshot_before", "screenshot_before",
                  "button_click")
    /\ clicked' = IF Raises(page_buttons[i + 1], "screenshot_before")
                  THEN clicked ELSE clicked \cup {i + 1}

\* line 175: await button.click()
ButtonClick ==
    /\ ButtonStep("button_click", "click", "button_wait")
    /\ UNCHANGED clicked

\* line 176: await page.wait_for_timeout(750)
ButtonWait ==
    /\ ButtonStep("button_wait", "wait_for_timeout", "button_screenshot_after")
    /\ UNCHANGED clicked

\* lines 179-187: the screenshot after, then the success entry
ButtonScreenshotAfter ==
    /\ pc = "button_screenshot_after"
    /\ IF Raises(page_buttons[i + 1], "screenshot_after")
       THEN ButtonRaise(i + 1, page_buttons[i + 1])
       ELSE /\ interaction_results' =
                   Append(interaction_results, ButtonSuccess(i + 1))
            /\ i' = i + 1
            /\ button_env' =
                   Append(button_env, [kind |-> "clicked", errlen |-> 0])
            /\ pc' = NextButton(i + 1)
    /\ UNCHANGED <<clicked, buttonFrame>>

\* Where the probe of one input can raise.
InputStages == {"get_attribute_type", "get_attribute_placeholder", "fill",
                "wait_for_timeout", "input_value"}

\* line 209: the types that are filled; "none" is a missing type attribute
FillableTypes == {"text", "search", "email", "number", "none"}

\* An input has a type attribute and is probed to the end, or a call raises.
InputOfType(t) == [kind |-> "typed", type |-> t, stage |-> "", errlen |-> 0]
InputRaises(s, n) == [kind |-> "raise", type |-> "", stage |-> s, errlen |-> n]

AllInputOutcomes ==
    {InputOfType("text"), InputOfType("none"), InputOfType("checkbox")}
        \cup {InputRaises(s, n) : s \in InputStages, n \in ErrorLengths}

\* lines 214-219
InputSuccess(k, t) ==
    [input |-> k, type |-> t, success |-> TRUE, error |-> 0]

\* lines 225-229
InputFailure(k, errlen) ==
    [input |-> k, type |-> "", success |-> FALSE,
     error |-> Truncate(errlen, ErrorCap)]

\* line 198: page.query_selector_all('input:visible, textarea:visible'),
\* line 201
QueryInputs(fails) ==
    /\ pc = "query_inputs"
    /\ \E f \in fails :
          IF f THEN /\ pc' = "except"
                    /\ UNCHANGED <<inputs, i, input_results>>
          ELSE /\ inputs' = Len(page_inputs)
               /\ i' = 0
               /\ input_results' = <<>>
               /\ pc' = IF Probed(Len(page_inputs), InputCap) > 0
                        THEN "input_type" ELSE "summary"
    /\ UNCHANGED <<lifeVars, perfVars, buttons, interaction_results, clicked,
                   results_interactions, button_env, input_env, a11yVars,
                   journeyVars, finalVars, notUx>>

\* line 202: the loop goes to input k + 1, or line 231 follows
NextInput(k) ==
    IF k < Probed(inputs, InputCap) THEN "input_type" ELSE "summary"

\* lines 223-229: except Exception as e
InputExcept(k, o) ==
    /\ input_results' = Append(input_results, InputFailure(k, o.errlen))
    /\ i' = k
    /\ input_env' = Append(input_env, [kind |-> "raise", errlen |-> o.errlen])
    /\ pc' = NextInput(k)

\* An awaited call of the input loop that keeps no result.
InputStep(at, stage, next) ==
    /\ pc = at
    /\ IF Raises(page_inputs[i + 1], stage)
       THEN InputExcept(i + 1, page_inputs[i + 1])
       ELSE /\ pc' = next
            /\ UNCHANGED <<i, input_results, input_env>>
    /\ UNCHANGED inputFrame

\* line 204: input_type = await input_elem.get_attribute('type')
InputType ==
    InputStep("input_type", "get_attribute_type", "input_placeholder")

\* lines 205-209: the placeholder, then the test on the type; an input of
\* another type ends the iteration with nothing recorded
InputPlaceholder ==
    /\ pc = "input_placeholder"
    /\ LET o == page_inputs[i + 1] IN
          IF Raises(o, "get_attribute_placeholder")
          THEN InputExcept(i + 1, o)
          ELSE IF o.kind = "typed" /\ o.type \notin FillableTypes
          THEN /\ pc' = NextInput(i + 1)
               /\ i' = i + 1
               /\ input_env' =
                      Append(input_env, [kind |-> "skipped", errlen |-> 0])
               /\ UNCHANGED input_results
          ELSE /\ pc' = "input_fill"
               /\ UNCHANGED <<i, input_results, input_env>>
    /\ UNCHANGED inputFrame

\* line 210: await input_elem.fill('test value')
InputFill == InputStep("input_fill", "fill", "input_wait")

\* line 211: await page.wait_for_timeout(300)
InputWait == InputStep("input_wait", "wait_for_timeout", "input_value")

\* lines 213-221: value = await input_elem.input_value(), then the success
\* entry
InputValue ==
    /\ pc = "input_value"
    /\ LET o == page_inputs[i + 1] IN
          IF Raises(o, "input_value")
          THEN InputExcept(i + 1, o)
          ELSE /\ input_results' =
                      Append(input_results, InputSuccess(i + 1, o.type))
               /\ i' = i + 1
               /\ input_env' =
                      Append(input_env, [kind |-> "filled", errlen |-> 0])
               /\ pc' = NextInput(i + 1)
    /\ UNCHANGED inputFrame

\* len([r for r in results if r.get('success')])
Successes(rs) == Cardinality({k \in 1..Len(rs) : rs[k].success})

\* lines 231-240
SummarizeInteractions ==
    /\ pc = "summary"
    /\ results_interactions' =
           [set |-> TRUE, buttonsFound |-> buttons, inputsFound |-> inputs,
            successfulClicks |-> Successes(interaction_results),
            successfulInputs |-> Successes(input_results)]
    /\ pc' = "a11y_evaluate"
    /\ UNCHANGED <<lifeVars, perfVars, buttons, i, interaction_results,
                   clicked, inputs, input_results, button_env, input_env,
                   a11yVars, journeyVars, finalVars, notUx>>

(***************************************************************************)
(* Accessibility evaluate (lines 245-292); the scoring steps follow below. *)
(***************************************************************************)
FlowA11yPages ==
    { A11yRecord(0, 0, 0, 0, 1, 0, 4, 2),
      A11yRecord(5, 3, 4, 1, 1, 0, 4, 0) }

AccessibilityEvaluate(pages, fails) ==
    /\ pc = "a11y_evaluate"
    /\ \E f \in fails, d \in pages :
          IF f THEN /\ pc' = "except"
                    /\ UNCHANGED <<accessibility_data, accessibility_score>>
          ELSE /\ pc' = "a11y_images"
               /\ accessibility_data' = d
               /\ accessibility_score' = RatInt(0)
    /\ UNCHANGED <<lifeVars, perfVars, probeVars, results_accessibility,
                   journeyVars, finalVars, notUx>>

\* lines 295-299
ScoreImages ==
    /\ pc = "a11y_images"
    /\ accessibility_score' =
           RatAdd(accessibility_score, ImagePoints(accessibility_data))
    /\ pc' = "a11y_forms"
    /\ UNCHANGED <<accessibility_data, results_accessibility, lifeVars,
                   perfVars, probeVars, journeyVars, finalVars, notUx>>

\* lines 301-305
ScoreForms ==
    /\ pc = "a11y_forms"
    /\ accessibility_score' =
           RatAdd(accessibility_score, FormPoints(accessibility_data))
    /\ pc' = "a11y_landmarks"
    /\ UNCHANGED <<accessibility_data, results_accessibility, lifeVars,
                   perfVars, probeVars, journeyVars, finalVars, notUx>>

\* lines 307-308
ScoreLandmarks ==
    /\ pc = "a11y_landmarks"
    /\ accessibility_score' =
           RatAdd(accessibility_score, LandmarkPoints(accessibility_data))
    /\ pc' = "a11y_headings"
    /\ UNCHANGED <<accessibility_data, results_accessibility, lifeVars,
                   perfVars, probeVars, journeyVars, finalVars, notUx>>

\* lines 310-312
ScoreHeadings ==
    /\ pc = "a11y_headings"
    /\ accessibility_score' =
           RatAdd(accessibility_score, HeadingPoints(accessibility_data))
    /\ pc' = "a11y_focusable"
    /\ UNCHANGED <<accessibility_data, results_accessibility, lifeVars,
                   perfVars, probeVars, journeyVars, finalVars, notUx>>

\* lines 314-316
ScoreFocusable ==
    /\ pc = "a11y_focusable"
    /\ accessibility_score' =
           RatAdd(accessibility_score, FocusPoints(accessibility_data))
    /\ pc' = "a11y_report"
    /\ UNCHANGED <<accessibility_data, results_accessibility, lifeVars,
                   perfVars, probeVars, journeyVars, finalVars, notUx>>

\* lines 318-322
ReportAccessibility ==
    /\ pc = "a11y_report"
    /\ results_accessibility' =
           [reported |-> TRUE,
            score    |-> RoundHalfEven(accessibility_score),
            grade    |-> GradeOf(accessibility_score)]
    /\ pc' = "journey"
    /\ UNCHANGED <<accessibility_data, accessibility_score, lifeVars,
                   perfVars, probeVars, journeyVars, finalVars, notUx>>

(***************************************************************************)
(* User journey (lines 330-376), one step per awaited call.                *)
(***************************************************************************)
LinkCap == 3

\* Where following one link can raise; the except clause of the loop only
\* prints.
LinkStages == {"get_attribute", "text_content", "click", "wait_for_timeout",
               "screenshot", "go_back", "settle"}

\* What a navigation link does: its href is external or missing (nothing is
\* recorded), the click changes the URL or not, or a call raises.
LinkSkipped == [kind |-> "skipped", stage |-> ""]
LinkNavigates == [kind |-> "navigated", stage |-> ""]
LinkStays == [kind |-> "stayed", stage |-> ""]
LinkRaises(s) == [kind |-> "raise", stage |-> s]

LinkOutcomes ==
    {LinkSkipped, LinkNavigates, LinkStays} \cup {LinkRaises(s) : s \in LinkStages}

\* line 351: current_url != new_url; go_back() is only called after a
\* navigation
Navigates(o) ==
    o.kind = "navigated" \/ Raises(o, "go_back") \/ Raises(o, "settle")

journeyFrame == <<lifeVars, perfVars, buttons, interaction_results, clicked,
                  inputs, input_results, results_interactions, button_env,
                  input_env, a11yVars, nav_links, finalVars, notUx>>

\* line 334: page.query_selector_all('nav a, [role="navigation"] a')
JourneyQuery(fails) ==
    /\ pc = "journey"
    /\ \E f \in fails :
          IF f THEN /\ pc' = "except"
                    /\ UNCHANGED <<nav_links, i, journey_results>>
          ELSE /\ nav_links' = Len(page_links)
               /\ i' = 0
               /\ journey_results' = <<>>
               /\ pc' = IF Probed(Len(page_links), LinkCap) > 0
                        THEN "link_get_attribute" ELSE "set_viewport_size"
    /\ UNCHANGED <<lifeVars, perfVars, buttons, interaction_results, clicked,
                   inputs, input_results, results_interactions, button_env,
                   input_env, a11yVars, finalVars, notUx>>

\* line 338: the loop goes to link k + 1, or line 373 follows;
\* results['user_journey'] is derived from journey_results
NextLink(k) ==
    IF k < Probed(nav_links, LinkCap) THEN "link_get_attribute"
    ELSE "set_viewport_size"

\* lines 370-371: except Exception as e: print
LinkExcept(k) ==
    /\ i' = k
    /\ pc' = NextLink(k)
    /\ UNCHANGED journey_results

\* An awaited call of the link loop that keeps no result.
LinkStep(at, stage, next) ==
    /\ pc = at
    /\ IF Raises(page_links[i + 1], stage)
       THEN LinkExcept(i + 1)
       ELSE /\ pc' = next
            /\ UNCHANGED <<i, journey_results>>
    /\ UNCHANGED journeyFrame

\* line 340: href = await link.get_attribute('href')
LinkHref == LinkStep("link_get_attribute", "get_attribute", "link_text_content")

\* lines 341-347: text = await link.text_content(), the test on href, and
\* link.click() is called
LinkTextContent ==
    /\ pc = "link_text_content"
    /\ LET o == page_links[i + 1] IN
          IF Raises(o, "text_content") THEN LinkExcept(i + 1)
          ELSE IF o.kind = "skipped"
          THEN /\ i' = i + 1
               /\ pc' = NextLink(i + 1)
               /\ UNCHANGED journey_results
          ELSE /\ pc' = "link_click"
               /\ UNCHANGED <<i, journey_results>>
    /\ UNCHANGED journeyFrame

\* line 347: await link.click()
LinkClick == LinkStep("link_click", "click", "link_wait")

\* line 348: await page.wait_for_timeout(1000)
LinkWait == LinkStep("link_wait", "wait_for_timeout", "link_screenshot")

\* lines 354-367: the screenshot, the entry, and go_back() is called after a
\* navigation
LinkScreenshot ==
    /\ pc = "link_screenshot"
    /\ LET o == page_links[i + 1] IN
          IF Raises(o, "screenshot") THEN LinkExcept(i + 1)
          ELSE /\ journey_results' =
                      Append(journey_results,
                             [link |-> i + 1,
                              navigationSuccessful |-> Navigates(o)])
               /\ IF Navigates(o)
                  THEN /\ pc' = "link_go_back"
                       /\ UNCHANGED i
                  ELSE /\ pc' = NextLink(i + 1)
                       /\ i' = i + 1
    /\ UNCHANGED journeyFrame

\* line 367: await page.go_back()
LinkGoBack == LinkStep("link_go_back", "go_back", "link_settle")

\* line 368: await page.wait_for_timeout(500), the last call of the
\* iteration
LinkSettle ==
    /\ pc = "link_settle"
    /\ i' = i + 1
    /\ pc' = NextLink(i + 1)
    /\ UNCHANGED <<journey_results, journeyFrame>>

(***************************************************************************)
(* Responsive check (lines 378-415): no per-viewport handler.              *)
(***************************************************************************)
\* line 389: await page.set_viewport_size(...)
ResizeViewport(fails) == PlainStep("set_viewport_size", "viewport_wait", fails)

\* line 390: await page.wait_for_timeout(500)
ViewportWait(fails) == PlainStep("viewport_wait", "layout_evaluate", fails)

\* lines 393-399: layout_check = await page.evaluate(...)
LayoutEvaluate(fails) ==
    PlainStep("layout_evaluate", "viewport_screenshot", fails)

\* lines 401-410: the screenshot, then the entry of the viewport with
\* hasLayoutIssues = layout_check['hasHorizontalScroll']
ViewportScreenshot(fails) ==
    /\ pc = "viewport_screenshot"
    /\ \E f \in fails :
          IF f THEN /\ pc' = "except"
                    /\ UNCHANGED responsive_results
          ELSE /\ responsive_results' =
                      Append(responsive_results,
                             page_scroll[Len(responsive_results) + 1])
               /\ pc' = IF Len(responsive_results) + 1 < Viewports
                        THEN "set_viewport_size" ELSE "reset_viewport"
    /\ UNCHANGED <<lifeVars, perfVars, probeVars, a11yVars, journeyVars,
                   page_errors, issues, recommendations,
                   interaction_success_rate, json_file, saved_summary, notUx>>

\* line 415: page.set_viewport_size(...)
ResetViewport(fails) == PlainStep("reset_viewport", "assess_performance", fails)

(***************************************************************************)
(* Final assessment (lines 417-450).                                       *)
(***************************************************************************)
Finding(text, n) == [text |-> text, count |-> n]

\* An if-block, were it to append the issue alone.
AssessIssueOnly(from, to, cond, issue, recommendation) ==
    /\ pc = from
    /\ issues' = IF cond THEN Append(issues, issue) ELSE issues
    /\ recommendations' = recommendations
    /\ pc' = to

\* One if-block of the assessment: both lists grow, or neither.
Assess(from, to, cond, issue, recommendation) ==
    /\ pc = from
    /\ issues' = IF cond THEN Append(issues, issue) ELSE issues
    /\ recommendations' =
           IF cond THEN Append(recommendations, recommendation)
           ELSE recommendations
    /\ pc' = to

\* lines 421-426
AssessPerformance ==
    /\ Assess("assess_performance", "assess_accessibility",
              results_performance.grade = "needs-improvement",
              Finding("Slow page load performance", 0),
              Finding("Optimize bundle size and loading strategies", 0))
    /\ UNCHANGED <<lifeVars, perfVars, probeVars, a11yVars, journeyVars,
                   responsive_results, page_errors,
                   interaction_success_rate, json_file, saved_summary, notUx>>

\* lines 428-430
AssessAccessibility ==
    /\ Assess("assess_accessibility", "assess_errors",
              results_accessibility.score < 80,
              Finding("Accessibility compliance below 80%", 0),
              Finding("Improve form labels, alt text, and navigation landmarks", 0))
    /\ UNCHANGED <<lifeVars, perfVars, probeVars, a11yVars, journeyVars,
                   responsive_results, page_errors,
                   interaction_success_rate, json_file, saved_summary, notUx>>

\* lines 432-434
AssessErrors ==
    /\ Assess("assess_errors", "assess_interaction",
              page_errors > 0,
              Finding("JavaScript errors detected", page_errors),
              Finding("Review and fix JavaScript errors in console", 0))
    /\ UNCHANGED <<lifeVars, perfVars, probeVars, a11yVars, journeyVars,
                   responsive_results, page_errors,
                   interaction_success_rate, json_file, saved_summary, notUx>>

\* The rate, were it taken over the buttons probed.
InteractionSuccessRateOfProbed(summary) ==
    RatMul(Rat(summary.successfulClicks,
               Max(Probed(summary.buttonsFound, ButtonCap), 1)), 100)

\* lines 436-437
InteractionSuccessRate(summary) ==
    RatMul(Rat(summary.successfulClicks, Max(summary.buttonsFound, 1)), 100)

\* lines 436-441
AssessInteraction ==
    /\ Assess("assess_interaction", "assess_responsive",
              RatLess(InteractionSuccessRate(results_interactions), 80),
              Finding("Low interaction success rate", 0),
              Finding("Review button functionality and error handling", 0))
    /\ interaction_success_rate' = InteractionSuccessRate(results_interactions)
    /\ UNCHANGED <<lifeVars, perfVars, probeVars, a11yVars, journeyVars,
                   responsive_results, page_errors, json_file, saved_summary, notUx>>

\* len([r for r in responsive_results if r['hasLayoutIssues']])
LayoutIssues(rs) == Cardinality({k \in 1..Len(rs) : rs[k]})

\* lines 443-450
AssessResponsive ==
    /\ Assess("assess_responsive", "final_screenshot",
              LayoutIssues(responsive_results) > 0,
              Finding("Responsive layout issues on viewports",
                      LayoutIssues(responsive_results)),
              Finding("Fix horizontal scroll and layout overflow on mobile devices", 0))
    /\ UNCHANGED <<lifeVars, perfVars, probeVars, a11yVars, journeyVars,
                   responsive_results, page_errors,
                   interaction_success_rate, json_file, saved_summary, notUx>>

\* line 453: page.screenshot(path='ux-test-final.png')
FinalScreenshot(fails) == PlainStep("final_screenshot", "open_results", fails)

(***************************************************************************)
(* Saving the results (lines 477-496) and leaving (lines 498-504).         *)
(***************************************************************************)
\* line 478: open('ux-test-results.json', 'w') truncates the file
OpenResults(fails) ==
    /\ pc = "open_results"
    /\ \E f \in fails :
          IF f THEN /\ pc' = "except"
                    /\ UNCHANGED json_file
          ELSE /\ pc' = "dump_results"
               /\ json_file' = "empty"
    /\ UNCHANGED <<lifeVars, perfVars, probeVars, a11yVars, journeyVars,
                   responsive_results, page_errors, issues, recommendations,
                   interaction_success_rate, saved_summary, notUx>>

\* lines 484-490: the 'summary' object handed to json.dump
SavedSummary ==
    [set |-> TRUE,
     performance_grade |-> results_performance.grade,
     accessibility_score |-> results_accessibility.score,
     interaction_success_rate |-> interaction_success_rate,
     issues_count |-> Len(issues),
     recommendations_count |-> Len(recommendations)]

\* What a dump that raises leaves on disk: nothing, when no byte of the
\* buffered text reaches the file before the error (OSError at the close of
\* the with statement), or a document cut short.
FailedDumps == {"empty", "partial"}

\* lines 479-491: json.dump writes the document piece by piece; the with
\* statement closes the file whether or not it raises
DumpResults(fails) ==
    /\ pc = "dump_results"
    /\ \E f \in fails :
          IF f THEN /\ pc' = "except"
                    /\ json_file' \in FailedDumps
                    /\ UNCHANGED saved_summary
          ELSE /\ pc' = "return"
               /\ json_file' = "complete"
               /\ saved_summary' = SavedSummary
    /\ UNCHANGED <<lifeVars, perfVars, probeVars, a11yVars, journeyVars,
                   responsive_results, page_errors, issues, recommendations,
                   interaction_success_rate, notUx>>

\* line 496: return results, through the finally clause
Return ==
    /\ pc = "return"
    /\ pending' = "returned"
    /\ pc' = "finally"
    /\ UNCHANGED <<browser, outcome, perfVars, probeVars, a11yVars,
                   journeyVars, finalVars, notUx>>

\* lines 498-500: except Exception as e: print, raise e
Except ==
    /\ pc = "except"
    /\ pending' = "raised"
    /\ pc' = "finally"
    /\ UNCHANGED <<browser, outcome, perfVars, probeVars, a11yVars,
                   journeyVars, finalVars, notUx>>

\* lines 502-504: finally: await browser.close(); when close() raises, its
\* exception leaves the function in place of the return or the exception
\* that was pending
Finally(fails) ==
    /\ pc = "finally"
    /\ \E f \in fails :
          IF f THEN /\ outcome' = "raised"
                    /\ UNCHANGED browser
          ELSE /\ browser' = "closed"
               /\ outcome' = pending
    /\ pc' = "done"
    /\ UNCHANGED <<pending, perfVars, probeVars, a11yVars, journeyVars,
                   finalVars, notUx>>

\* Lists of n elements of which the first cap are probed: each probed
\* element behaves in one of the ways of free, the others are nominal.
ListsOver(n, cap, free, nominal) ==
    { [j \in 1..n |-> IF j <= cap THEN f[j] ELSE nominal] :
          f \in [1..Min(n, cap) -> free] }

\* Lists of n elements of which at most two probed elements behave in one
\* of the ways of odd, the others are nominal.
TwoOdd(n, cap, odd, nominal) ==
    IF n = 0 THEN {<<>>}
    ELSE { [j \in 1..n |-> IF j = a THEN x ELSE IF j = b THEN y ELSE nominal] :
               a \in 1..Min(n, cap), b \in 1..Min(n, cap),
               x \in odd \cup {nominal}, y \in odd \cup {nominal} }

\* Bounds on what the page shows to the run.
MaxButtons == 6
MaxInputs == 4
MaxNavLinks == 1
MaxPageErrors == 1

\* The pages of the whole run: up to two buttons, an input or none, a
\* link or none, horizontal scroll on the mobile viewport or nowhere.
FlowButtonLists ==
    {<<>>, <<ButtonClicked>>, <<ButtonClicked, ButtonClicked>>,
     <<ButtonClicked, ProbeRaises("click", 150)>>}
FlowInputLists == {<<>>, <<InputOfType("text")>>}
FlowLinkOutcomes == {LinkSkipped, LinkNavigates, LinkRaises("go_back")}
FlowScrolls == {NoScroll, [NoScroll EXCEPT ![1] = TRUE]}

FlowPage ==
    /\ page_buttons \in FlowButtonLists
    /\ page_inputs \in FlowInputLists
    /\ \E n \in 0..MaxNavLinks :
          page_links \in ListsOver(n, LinkCap, FlowLinkOutcomes, LinkSkipped)
    /\ page_scroll \in FlowScrolls

\* The whole run.
UxNext ==
    \/ Launch(CanFail)
    \/ NewContext(CanFail)
    \/ NewPage(CanFail)
    \/ HandleError(MaxPageErrors)
    \/ Goto(LoadTimes, CanFail)
    \/ PerfEvaluate(PerfSamples, CanFail)
    \/ InitialScreenshot(CanFail)
    \/ StructureEvaluate(CanFail)
    \/ QueryButtons(CanFail)
    \/ ButtonTextContent
    \/ ButtonIsEnabled
    \/ ButtonScreenshotBefore
    \/ ButtonClick
    \/ ButtonWait
    \/ ButtonScreenshotAfter
    \/ QueryInputs(CanFail)
    \/ InputType
    \/ InputPlaceholder
    \/ InputFill
    \/ InputWait
    \/ InputValue
    \/ SummarizeInteractions
    \/ AccessibilityEvaluate(FlowA11yPages, CanFail)
    \/ ScoreImages
    \/ ScoreForms
    \/ ScoreLandmarks
    \/ ScoreHeadings
    \/ ScoreFocusable
    \/ ReportAccessibility
    \/ JourneyQuery(CanFail)
    \/ LinkHref
    \/ LinkTextContent
    \/ LinkClick
    \/ LinkWait
    \/ LinkScreenshot
    \/ LinkGoBack
    \/ LinkSettle
    \/ ResizeViewport(CanFail)
    \/ ViewportWait(CanFail)
    \/ LayoutEvaluate(CanFail)
    \/ ViewportScreenshot(CanFail)
    \/ ResetViewport(CanFail)
    \/ AssessPerformance
    \/ AssessAccessibility
    \/ AssessErrors
    \/ AssessInteraction
    \/ AssessResponsive
    \/ FinalScreenshot(CanFail)
    \/ OpenResults(CanFail)
    \/ DumpResults(CanFail)
    \/ Return
    \/ Except
    \/ Finally(CanFail)

\* The pages of the interaction probes: any number of elements up to the
\* cap, or more than the cap; the buttons behave in every way on a page with
\* few inputs, and the inputs on a page with few buttons.
ButtonCounts == 0..ButtonCap \cup {MaxButtons}
InputCounts == 0..InputCap \cup {MaxInputs}
FewButtonLists ==
    {<<>>, <<ButtonClicked, ProbeRaises("click", 150), ButtonClicked>>}
FewInputLists == {<<>>, [j \in 1..MaxInputs |-> InputOfType("text")]}

ProbePage ==
    /\ \/ /\ \E n \in ButtonCounts :
                page_buttons \in
                    TwoOdd(n, ButtonCap, AllButtonOutcomes, ButtonClicked)
          /\ page_inputs \in FewInputLists
       \/ /\ page_buttons \in FewButtonLists
          /\ \E n \in InputCounts :
                page_inputs \in
                    TwoOdd(n, InputCap, AllInputOutcomes, InputOfType("text"))
    /\ page_links = <<>>
    /\ page_scroll = NoScroll

\* The interaction probes, every behaviour of every element.
ProbeNext ==
    \/ HandleError(MaxPageErrors)
    \/ QueryButtons(CanFail)
    \/ ButtonTextContent
    \/ ButtonIsEnabled
    \/ ButtonScreenshotBefore
    \/ ButtonClick
    \/ ButtonWait
    \/ ButtonScreenshotAfter
    \/ QueryInputs(CanFail)
    \/ InputType
    \/ InputPlaceholder
    \/ InputFill
    \/ InputWait
    \/ InputValue
    \/ SummarizeInteractions
    \/ Except
    \/ Finally(CanFail)

\* What a probed button can do, as far as the success rate sees it.
RateButtonOutcomes ==
    {ButtonClicked, ButtonDisabled, ProbeRaises("click", 150)}

\* The pages of the success rate: every number of visible buttons, no
\* inputs and no links.
RatePage ==
    /\ \E n \in 0..MaxButtons :
          page_buttons \in
              ListsOver(n, ButtonCap, RateButtonOutcomes, ButtonClicked)
    /\ page_inputs = <<>>
    /\ page_links = <<>>
    /\ page_scroll \in FlowScrolls

\* The run from the button probes to its end.
RateNext ==
    \/ HandleError(MaxPageErrors)
    \/ QueryButtons(CanFail)
    \/ ButtonTextContent
    \/ ButtonIsEnabled
    \/ ButtonScreenshotBefore
    \/ ButtonClick
    \/ ButtonWait
    \/ ButtonScreenshotAfter
    \/ QueryInputs({FALSE})
    \/ SummarizeInteractions
    \/ AccessibilityEvaluate(FlowA11yPages, {FALSE})
    \/ ScoreImages
    \/ ScoreForms
    \/ ScoreLandmarks
    \/ ScoreHeadings
    \/ ScoreFocusable
    \/ ReportAccessibility
    \/ JourneyQuery({FALSE})
    \/ ResizeViewport({FALSE})
    \/ ViewportWait({FALSE})
    \/ LayoutEvaluate({FALSE})
    \/ ViewportScreenshot({FALSE})
    \/ ResetViewport({FALSE})
    \/ AssessPerformance
    \/ AssessAccessibility
    \/ AssessErrors
    \/ AssessInteraction
    \/ AssessResponsive
    \/ FinalScreenshot({FALSE})
    \/ OpenResults({FALSE})
    \/ DumpResults({FALSE})
    \/ Return
    \/ Except
    \/ Finally(CanFail)

A11yNext ==
    \/ ScoreImages
    \/ ScoreForms
    \/ ScoreLandmarks
    \/ ScoreHeadings
    \/ ScoreFocusable
    \/ ReportAccessibility

(***************************************************************************)
(* The header validation run (test_history_headers.py).                    *)
(***************************************************************************)
MaxTheads == 2

\* lines 26-34
headers_to_check ==
    <<"Deck Name", "Deck Status", "Processing Status", "Progress", "Created",
      "Completed", "Actions">>
HeaderSet == {headers_to_check[k] : k \in 1..Len(headers_to_check)}

\* Where the page shows a header text: nowhere, once inside <thead>, once
\* outside of it, or twice (inside and outside).
Placements == {"absent", "thead", "body", "both"}

\* len(page.locator(f"text={header}").all())
CountOf(place) ==
    CASE place = "absent" -> 0
      [] place = "thead" -> 1
      [] place = "body" -> 1
      [] place = "both" -> 2

\* header in thead_text
InTheadText(place) == place \in {"thead", "both"}

\* line 38: header_counts = {}; a header without a key counts as 0
NoCounts == [h \in HeaderSet |-> 0]

\* header_counts after the first n passes of the loop of lines 41-55
CountsOfFirst(n, page) ==
    [h \in HeaderSet |->
        IF \E j \in 1..n : headers_to_check[j] = h THEN CountOf(page[h])
        ELSE 0]

HvInit ==
    /\ hv_pc = "launch"
    /\ hv_browser = "none"
    /\ page_theads \in 0..MaxTheads
    /\ page_headers \in [HeaderSet -> Placements]
    /\ (page_theads = 0 =>
            \A h \in HeaderSet : page_headers[h] \in {"absent", "body"})
    /\ header_counts = NoCounts
    /\ headers_in_thead = "unset"
    /\ total_issues = 0
    /\ hv_pending = "none"
    /\ success = "unset"
    /\ exit_status = -1

HvIdle ==
    /\ hv_pc = "idle"
    /\ hv_browser = "none"
    /\ page_theads = 0
    /\ page_headers = [h \in HeaderSet |-> "absent"]
    /\ header_counts = NoCounts
    /\ headers_in_thead = "unset"
    /\ total_issues = 0
    /\ hv_pending = "none"
    /\ success = "unset"
    /\ exit_status = -1

notHv == <<classifierVars, headingVars, uxVars, mapVars>>

\* line 9: p.chromium.launch(headless=False); an exception here or at line
\* 10 is outside the try statement and ends the process with a traceback
\* (exit status 1)
HvLaunch(fails) ==
    /\ hv_pc = "launch"
    /\ \E f \in fails :
          IF f THEN /\ hv_pc' = "exited"
                    /\ exit_status' = 1
                    /\ UNCHANGED hv_browser
          ELSE /\ hv_pc' = "new_page"
               /\ hv_browser' = "open"
               /\ UNCHANGED exit_status
    /\ UNCHANGED <<page_theads, page_headers, header_counts,
                   headers_in_thead, total_issues, hv_pending, success, notHv>>

\* line 10: browser.new_page()
HvNewPage(fails) ==
    /\ hv_pc = "new_page"
    /\ \E f \in fails :
          IF f THEN /\ hv_pc' = "exited"
                    /\ exit_status' = 1
          ELSE /\ hv_pc' = "goto"
               /\ UNCHANGED exit_status
    /\ UNCHANGED <<hv_browser, page_theads, page_headers, header_counts,
                   headers_in_thead, total_issues, hv_pending, success, notHv>>

\* A step inside the try statement that keeps no result.
HvPlainStep(from, to, fails) ==
    /\ hv_pc = from
    /\ \E f \in fails : hv_pc' = IF f THEN "except" ELSE to
    /\ UNCHANGED <<hv_browser, page_theads, page_headers, header_counts,
                   headers_in_thead, total_issues, hv_pending, success, exit_status,
                   notHv>>

\* lines 15-18: page.goto(..., wait_until="networkidle"), time.sleep(3)
HvGoto(fails) == HvPlainStep("goto", "screenshot", fails)

\* lines 21-23: page.screenshot(...)
HvScreenshot(fails) == HvPlainStep("screenshot", "count_headers", fails)

\* lines 38-55: the count of every header text, one locator(...).all() call
\* per header; when the call of pass k raises, header_counts holds the counts
\* of the passes before it
HvCountHeaders(fails) ==
    /\ hv_pc = "count_headers"
    /\ \E f \in fails, k \in 1..Len(headers_to_check) :
          IF f THEN /\ hv_pc' = "except"
                    /\ header_counts' = CountsOfFirst(k - 1, page_headers)
          ELSE /\ hv_pc' = "thead_check"
               /\ header_counts' =
                      CountsOfFirst(Len(headers_to_check), page_headers)
    /\ UNCHANGED <<hv_browser, page_theads, page_headers, headers_in_thead,
                   total_issues, hv_pending, success, exit_status, notHv>>

\* lines 59-70: with one <thead> its text is searched for every header; the
\* result is printed and used nowhere else.  locator("thead").text_content()
\* is a strict call: with several <thead> elements it raises.
HvTheadCheck(fails) ==
    /\ hv_pc = "thead_check"
    /\ \E f \in fails :
          IF f \/ page_theads > 1
          THEN /\ hv_pc' = "except"
               /\ UNCHANGED headers_in_thead
          ELSE /\ hv_pc' = "table_check"
               /\ headers_in_thead' =
                      IF page_theads = 0 THEN "unset"
                      ELSE IF \A h \in HeaderSet : InTheadText(page_headers[h])
                      THEN "True" ELSE "False"
    /\ UNCHANGED <<hv_browser, page_theads, page_headers, header_counts,
                   total_issues, hv_pending, success, exit_status, notHv>>

\* lines 73-75: page.locator("table").all()
HvTableCheck(fails) == HvPlainStep("table_check", "duplicates", fails)

\* lines 78-90: the duplicates are listed; the inner except swallows what
\* element.evaluate raises, locator(...).all() is not guarded
HvDuplicateDetection(fails) == HvPlainStep("duplicates", "assess", fails)

\* lines 97-100
MissingHeaders(counts) == {h \in HeaderSet : counts[h] = 0}

\* lines 103-106
DuplicateHeaders(counts) == {h \in HeaderSet : counts[h] > 1}

\* lines 109-114
StructureIssues(theads) == IF theads = 0 \/ theads > 1 THEN 1 ELSE 0

\* lines 94-114
TotalIssues(counts, theads) ==
    Cardinality(MissingHeaders(counts)) + Cardinality(DuplicateHeaders(counts))
        + StructureIssues(theads)

\* lines 93-124: total_issues and return total_issues == 0; the value is
\* handed to main() once the finally clause is through
HvAssess ==
    /\ hv_pc = "assess"
    /\ total_issues' = TotalIssues(header_counts, page_theads)
    /\ hv_pending' = IF TotalIssues(header_counts, page_theads) = 0
                     THEN "True" ELSE "False"
    /\ hv_pc' = "finally"
    /\ UNCHANGED <<hv_browser, page_theads, page_headers, header_counts,
                   headers_in_thead, success, exit_status, notHv>>

\* lines 126-130: except Exception: print, traceback, return False
HvExcept ==
    /\ hv_pc = "except"
    /\ hv_pending' = "False"
    /\ hv_pc' = "finally"
    /\ UNCHANGED <<hv_browser, page_theads, page_headers, header_counts,
                   headers_in_thead, total_issues, success, exit_status,
                   notHv>>

\* lines 131-132: finally: browser.close(), then line 135 takes the value
\* returned.  When close() raises, its exception replaces the return: main()
\* does not catch it and the process ends with a traceback (exit status 1).
HvFinally(fails) ==
    /\ hv_pc = "finally"
    /\ \E f \in fails :
          IF f THEN /\ hv_pc' = "exited"
                    /\ exit_status' = 1
                    /\ UNCHANGED <<hv_browser, success>>
          ELSE /\ hv_browser' = "closed"
               /\ success' = hv_pending
               /\ hv_pc' = "main"
               /\ UNCHANGED exit_status
    /\ UNCHANGED <<page_theads, page_headers, header_counts,
                   headers_in_thead, total_issues, hv_pending, notHv>>

\* lines 136-137: sys.exit(0 if success else 1)
HvExit ==
    /\ hv_pc = "main"
    /\ exit_status' = IF success = "True" THEN 0 ELSE 1
    /\ hv_pc' = "exited"
    /\ UNCHANGED <<hv_browser, page_theads, page_headers, header_counts,
                   headers_in_thead, total_issues, hv_pending, success,
                   notHv>>

HvNext ==
    \/ HvLaunch(CanFail)
    \/ HvNewPage(CanFail)
    \/ HvGoto(CanFail)
    \/ HvScreenshot(CanFail)
    \/ HvCountHeaders(CanFail)
    \/ HvTheadCheck(CanFail)
    \/ HvTableCheck(CanFail)
    \/ HvDuplicateDetection(CanFail)
    \/ HvAssess
    \/ HvExcept
    \/ HvFinally(CanFail)
    \/ HvExit

(***************************************************************************)
(* The module bodies of html_parser.py and history_parser.py: runs of the  *)
(* two scripts, one after the other, against application_map.md.  The file *)
(* is the sequence of the lines written to it.                             *)
(***************************************************************************)
MaxRuns == 3             \* logged runs of the parser scripts, in sequence
MaxSingleRuns == 1       \* logged runs when every page is tried
MaxTabs == 2             \* a[role=tab] elements in the header

\* Nodes as the lookups return them: without a Mui class, with one.
PlainTag == PresentTag(<< <<"f", "o", "o">> >>)
MuiTag == PresentTag(<< <<"M", "u", "i", "B", "-", "r">>, <<"f", "o", "o">> >>)

\* The landmarks each script looks up, by the name of its variable.
DashboardLandmarks ==
    {"header", "logo", "tabs", "logout_button", "main_content", "search_bar",
     "update_master_list_button", "create_collection_deck_button",
     "add_scc_button", "sccs_table"}
HistoryLandmarks ==
    {"start_date_textbox", "end_date_textbox", "reset_button", "h6_ready",
     "ready_to_continue_table", "h6_completed", "completed_decks_table"}

\* A page without any landmark; tabs is what find_all returns, a list.
EmptyPage ==
    [l \in DashboardLandmarks \cup HistoryLandmarks |->
        IF l = "tabs" THEN <<>> ELSE NoneTag]

\* The dashboard page and the history page with every landmark in place.
FullDashboard ==
    [l \in DashboardLandmarks \cup HistoryLandmarks |->
        IF l = "tabs" THEN [k \in 1..MaxTabs |-> MuiTag]
        ELSE IF l \in DashboardLandmarks THEN MuiTag ELSE NoneTag]
FullHistory ==
    [l \in DashboardLandmarks \cup HistoryLandmarks |->
        IF l = "tabs" THEN <<>>
        ELSE IF l \in HistoryLandmarks THEN MuiTag ELSE NoneTag]

\* What is inside a landmark goes with it.
Inside(l) ==
    CASE l = "header" -> {"header", "logo", "tabs", "logout_button"}
      [] l = "main_content" ->
             {"main_content", "search_bar", "update_master_list_button",
              "create_collection_deck_button", "add_scc_button", "sccs_table"}
      [] OTHER -> {l}

\* The page with one landmark taken out, or left without a Mui class.
Without(p, l) ==
    [m \in DOMAIN p |->
        IF m \in Inside(l) THEN (IF m = "tabs" THEN <<>> ELSE NoneTag)
        ELSE p[m]]
Unstyled(p, l) ==
    [m \in DOMAIN p |->
        IF m # l THEN p[m]
        ELSE IF m = "tabs" THEN [k \in 1..Len(p[m]) |-> PlainTag]
        ELSE PlainTag]

DashboardPages ==
    {FullDashboard, Unstyled(FullDashboard, "logo")}
        \cup {Without(FullDashboard, l) : l \in DashboardLandmarks}
HistoryPages ==
    {FullHistory, Unstyled(FullHistory, "reset_button")}
        \cup {Without(FullHistory, l) : l \in HistoryLandmarks}
Pages == DashboardPages \cup HistoryPages \cup {EmptyPage}

\* The pages of a sequence of runs: complete, one node missing that the
\* report tolerates, one that it does not.
FlowPages ==
    {FullDashboard, Without(FullDashboard, "logo"),
     Without(FullDashboard, "header"),
     FullHistory, Without(FullHistory, "reset_button"),
     Without(FullHistory, "h6_completed")}

\* application_map.md before the first run: missing or empty, or with text.
PriorLine == [label |-> "prior", component |-> <<>>, whole |-> TRUE]
InitialMaps == {<<>>, <<PriorLine>>}

\* No lookup made yet.
NoLookups == EmptyPage

\* soup.find(...) / node.find(...): the first match or None
Find(p, l) == p[l]

\* One f.write: a fixed line, or a line with a classified node in it.
FixedItem(text) == [label |-> text, component |-> NotCalled]
NodeItem(text, c) == [label |-> text, component |-> c]
Line(text, value) == [label |-> text, component |-> value, whole |-> TRUE]

\* A line of which only a leading part reached the file.
CutLine(l) == [l EXCEPT !.whole = FALSE]

\* The first k lines of a section, followed by part of the next one or not.
CutShort(lines, k, partial) ==
    SubSeq(lines, 1, k)
        \o (IF partial THEN <<CutLine(lines[k + 1])>> ELSE <<>>)

\* Where a failing write can stop: after any number of whole lines short of
\* the section, inside the line that follows or at its start.
EveryCut(lines) == (0..(Len(lines) - 1)) \X BOOLEAN

\* The stops tried in a sequence of runs: before the first byte, inside the
\* first line and inside the third.
FlowCuts == {<<0, FALSE>>, <<0, TRUE>>, <<2, TRUE>>}

\* The writes in order until one raises while its line is formatted.
RECURSIVE WriteLines(_)
WriteLines(items) ==
    IF items = <<>> THEN [lines |-> <<>>, raised |-> FALSE]
    ELSE IF Head(items).component.raised
         THEN [lines |-> <<>>, raised |-> TRUE]
         ELSE LET rest == WriteLines(Tail(items))
              IN  [lines |-> <<Line(Head(items).label,
                                    Head(items).component.value)>>
                                 \o rest.lines,
                   raised |-> rest.raised]

\* html_parser.py lines 33-45
DashboardItems(f) ==
    << FixedItem("VUE Dashboard"),
       FixedItem("Header"),
       NodeItem("VUE Logo", get_mui_component(f["logo"])),
       FixedItem("Navigation Links") >>
    \o [k \in 1..Len(f["tabs"]) |->
           NodeItem("tab", get_mui_component(f["tabs"][k]))]
    \o << NodeItem("Logout Button", get_mui_component(f["logout_button"])),
          FixedItem("Main Content Area"),
          NodeItem("Search SCCs...", get_mui_component(f["search_bar"])),
          NodeItem("Update Master List Button",
                   get_mui_component(f["update_master_list_button"])),
          NodeItem("Create Collection Deck Button",
                   get_mui_component(f["create_collection_deck_button"])),
          NodeItem("ADD SCC Button", get_mui_component(f["add_scc_button"])),
          NodeItem("SCCs Table", get_mui_component(f["sccs_table"])) >>

\* history_parser.py lines 26-31
HistoryItems(f) ==
    << FixedItem("History Page"),
       NodeItem("Start Date Textbox",
                history_get_mui_component(f["start_date_textbox"])),
       NodeItem("End Date Textbox",
                history_get_mui_component(f["end_date_textbox"])),
       NodeItem("Reset Button",
                history_get_mui_component(f["reset_button"])),
       NodeItem("Ready to Continue Table",
                history_get_mui_component(f["ready_to_continue_table"])),
       NodeItem("Completed Decks Table",
                history_get_mui_component(f["completed_decks_table"])) >>

\* The report line of each landmark that has one.
ReportLabel(l) ==
    CASE l = "logo" -> "VUE Logo"
      [] l = "tabs" -> "tab"
      [] l = "logout_button" -> "Logout Button"
      [] l = "search_bar" -> "Search SCCs..."
      [] l = "update_master_list_button" -> "Update Master List Button"
      [] l = "create_collection_deck_button" -> "Create Collection Deck Button"
      [] l = "add_scc_button" -> "ADD SCC Button"
      [] l = "sccs_table" -> "SCCs Table"
      [] l = "start_date_textbox" -> "Start Date Textbox"
      [] l = "end_date_textbox" -> "End Date Textbox"
      [] l = "reset_button" -> "Reset Button"
      [] l = "ready_to_continue_table" -> "Ready to Continue Table"
      [] l = "completed_decks_table" -> "Completed Decks Table"
      [] OTHER -> ""

MapInit ==
    /\ ps_pc = "idle"
    /\ ps_script = "html_parser"
    /\ page_html = EmptyPage
    /\ nodes = NoLookups
    /\ ps_outcome = "ok"
    /\ application_map \in InitialMaps
    /\ map_before = application_map
    /\ map_initial = application_map
    /\ runs = <<>>

MapIdle ==
    /\ ps_pc = "off"
    /\ ps_script = "html_parser"
    /\ page_html = EmptyPage
    /\ nodes = NoLookups
    /\ ps_outcome = "ok"
    /\ application_map = <<>>
    /\ map_before = <<>>
    /\ map_initial = <<>>
    /\ runs = <<>>

notMap == <<classifierVars, headingVars, uxVars, hvVars>>

\* A script is started on the page.html of the moment.
StartRun(scripts, pages, limit) ==
    /\ ps_pc = "idle"
    /\ Len(runs) < limit
    /\ \E s \in scripts, p \in pages :
          /\ ps_script' = s
          /\ page_html' = p
    /\ nodes' = NoLookups
    /\ ps_outcome' = "running"
    /\ map_before' = application_map
    /\ ps_pc' = "read_page"
    /\ UNCHANGED <<application_map, map_initial, runs, notMap>>

\* An uncaught exception ends the script.
Raise ==
    /\ ps_outcome' = "raised"
    /\ ps_pc' = "exit"

\* lines 13-16 of both scripts: open("page.html"), f.read(), BeautifulSoup
ReadPage(fails) ==
    /\ ps_pc = "read_page"
    /\ \E f \in fails :
          IF f THEN Raise
          ELSE /\ ps_pc' = IF ps_script = "html_parser" THEN "header"
                           ELSE "history_inputs"
               /\ UNCHANGED ps_outcome
    /\ UNCHANGED <<ps_script, page_html, nodes, application_map, map_before,
                   map_initial, runs, notMap>>

\* The first lookup, were application_map.md opened for writing before it.
HtmlHeaderTruncating ==
    /\ ps_pc = "header"
    /\ nodes' = [nodes EXCEPT !["header"] = Find(page_html, "header")]
    /\ application_map' = <<>>
    /\ ps_pc' = "header_children"
    /\ UNCHANGED <<ps_script, page_html, ps_outcome, map_before, map_initial,
                   runs, notMap>>

\* html_parser.py line 19: soup.find("header")
HtmlHeader ==
    /\ ps_pc = "header"
    /\ nodes' = [nodes EXCEPT !["header"] = Find(page_html, "header")]
    /\ ps_pc' = "header_children"
    /\ UNCHANGED <<ps_script, page_html, ps_outcome, application_map,
                   map_before, map_initial, runs, notMap>>

\* html_parser.py lines 20-22: header.find / header.find_all, an attribute
\* access on header
HtmlHeaderChildren ==
    /\ ps_pc = "header_children"
    /\ IF ~nodes["header"].present
       THEN /\ Raise
            /\ UNCHANGED nodes
       ELSE /\ nodes' = [nodes EXCEPT
                            !["logo"] = Find(page_html, "logo"),
                            !["tabs"] = Find(page_html, "tabs"),
                            !["logout_button"] = Find(page_html, "logout_button")]
            /\ ps_pc' = "main_content"
            /\ UNCHANGED ps_outcome
    /\ UNCHANGED <<ps_script, page_html, application_map, map_before,
                   map_initial, runs, notMap>>

\* html_parser.py line 25: soup.find("div", {"class": "MuiGrid2-grid-xs-12"})
HtmlMain ==
    /\ ps_pc = "main_content"
    /\ nodes' = [nodes EXCEPT
                    !["main_content"] = Find(page_html, "main_content")]
    /\ ps_pc' = "main_children"
    /\ UNCHANGED <<ps_script, page_html, ps_outcome, application_map,
                   map_before, map_initial, runs, notMap>>

\* html_parser.py lines 26-30: main_content.find, an attribute access on
\* main_content
HtmlMainChildren ==
    /\ ps_pc = "main_children"
    /\ IF ~nodes["main_content"].present
       THEN /\ Raise
            /\ UNCHANGED nodes
       ELSE /\ nodes' = [nodes EXCEPT
                !["search_bar"] = Find(page_html, "search_bar"),
                !["update_master_list_button"] =
                    Find(page_html, "update_master_list_button"),
                !["create_collection_deck_button"] =
                    Find(page_html, "create_collection_deck_button"),
                !["add_scc_button"] = Find(page_html, "add_scc_button"),
                !["sccs_table"] = Find(page_html, "sccs_table")]
            /\ ps_pc' = "html_open"
            /\ UNCHANGED ps_outcome
    /\ UNCHANGED <<ps_script, page_html, application_map, map_before,
                   map_initial, runs, notMap>>

\* open(..., "w") were it to keep what the file holds.
HtmlOpenAppending(fails) ==
    /\ ps_pc = "html_open"
    /\ \E f \in fails :
          IF f THEN /\ Raise
                    /\ UNCHANGED application_map
          ELSE /\ UNCHANGED application_map
               /\ ps_pc' = "html_write"
               /\ UNCHANGED ps_outcome
    /\ UNCHANGED <<ps_script, page_html, nodes, map_before, map_initial,
                   runs, notMap>>

\* html_parser.py line 32: open("application_map.md", "w") truncates
HtmlOpen(fails) ==
    /\ ps_pc = "html_open"
    /\ \E f \in fails :
          IF f THEN /\ Raise
                    /\ UNCHANGED application_map
          ELSE /\ application_map' = <<>>
               /\ ps_pc' = "html_write"
               /\ UNCHANGED ps_outcome
    /\ UNCHANGED <<ps_script, page_html, nodes, map_before, map_initial,
                   runs, notMap>>

\* The body of a with block: the writes, then the end of the script.  The
\* text of the f.write calls is buffered and reaches the file when the block
\* closes it; that write can fail (OSError: file size limit, full disk) with
\* none or only a leading part of the text in the file, and the exception
\* ends the script.
WriteSection(at, items, cuts) ==
    /\ ps_pc = at
    /\ LET w == WriteLines(items)
       IN  \/ /\ application_map' = application_map \o w.lines
              /\ ps_outcome' = IF w.raised THEN "raised" ELSE "ok"
           \/ \E c \in cuts :
                 /\ c \in EveryCut(w.lines)
                 /\ application_map' =
                        application_map \o CutShort(w.lines, c[1], c[2])
                 /\ ps_outcome' = "raised"
    /\ ps_pc' = "exit"
    /\ UNCHANGED <<ps_script, page_html, nodes, map_before, map_initial,
                   runs, notMap>>

\* html_parser.py lines 33-45
HtmlWrite(cuts) == WriteSection("html_write", DashboardItems(nodes), cuts)

\* history_parser.py lines 19-21: three soup.find on the document
HistoryInputs ==
    /\ ps_pc = "history_inputs"
    /\ nodes' = [nodes EXCEPT
            !["start_date_textbox"] = Find(page_html, "start_date_textbox"),
            !["end_date_textbox"] = Find(page_html, "end_date_textbox"),
            !["reset_button"] = Find(page_html, "reset_button")]
    /\ ps_pc' = "history_tables"
    /\ UNCHANGED <<ps_script, page_html, ps_outcome, application_map,
                   map_before, map_initial, runs, notMap>>

\* history_parser.py lines 22-23: soup.find("h6", string=...).find_next("table"),
\* an attribute access on what soup.find returned
HistoryTables ==
    /\ ps_pc = "history_tables"
    /\ IF ~Find(page_html, "h6_ready").present
       THEN /\ Raise
            /\ UNCHANGED nodes
       ELSE IF ~Find(page_html, "h6_completed").present
       THEN /\ Raise
            /\ nodes' = [nodes EXCEPT
                   !["h6_ready"] = Find(page_html, "h6_ready"),
                   !["ready_to_continue_table"] =
                       Find(page_html, "ready_to_continue_table")]
       ELSE /\ nodes' = [nodes EXCEPT
                   !["h6_ready"] = Find(page_html, "h6_ready"),
                   !["ready_to_continue_table"] =
                       Find(page_html, "ready_to_continue_table"),
                   !["h6_completed"] = Find(page_html, "h6_completed"),
                   !["completed_decks_table"] =
                       Find(page_html, "completed_decks_table")]
            /\ ps_pc' = "history_open"
            /\ UNCHANGED ps_outcome
    /\ UNCHANGED <<ps_script, page_html, application_map, map_before,
                   map_initial, runs, notMap>>

\* open(..., "a") were it to truncate like "w".
HistoryOpenTruncating(fails) ==
    /\ ps_pc = "history_open"
    /\ \E f \in fails :
          IF f THEN /\ Raise
                    /\ UNCHANGED application_map
          ELSE /\ application_map' = <<>>
               /\ ps_pc' = "history_write"
               /\ UNCHANGED ps_outcome
    /\ UNCHANGED <<ps_script, page_html, nodes, map_before, map_initial,
                   runs, notMap>>

\* history_parser.py line 25: open("application_map.md", "a") keeps the file
\* and writes at its end
HistoryOpen(fails) ==
    /\ ps_pc = "history_open"
    /\ \E f \in fails :
          IF f THEN /\ Raise
                    /\ UNCHANGED application_map
          ELSE /\ UNCHANGED application_map
               /\ ps_pc' = "history_write"
               /\ UNCHANGED ps_outcome
    /\ UNCHANGED <<ps_script, page_html, nodes, map_before, map_initial,
                   runs, notMap>>

\* history_parser.py lines 26-31
HistoryWrite(cuts) ==
    WriteSection("history_write", HistoryItems(nodes), cuts)

\* The run a script leaves in the log: what it wrote and how it ended.
RunRecord(s, section, ended) ==
    [script |-> s, section |-> section, outcome |-> ended]

\* What the run of the moment has put into the file.
Written ==
    IF ps_script = "html_parser" THEN application_map
    ELSE SubSeq(application_map, Len(map_before) + 1, Len(application_map))

\* The process ends; a run that completed is logged with the section of the
\* nodes it looked up, a run that raised and left the file other than it
\* found it with what it put there.
ParserExit ==
    /\ ps_pc = "exit"
    /\ runs' = IF ps_outcome = "ok"
               THEN Append(runs,
                      RunRecord(ps_script,
                         IF ps_script = "html_parser"
                         THEN WriteLines(DashboardItems(nodes)).lines
                         ELSE WriteLines(HistoryItems(nodes)).lines,
                         ps_outcome))
               ELSE IF application_map # map_before
               THEN Append(runs, RunRecord(ps_script, Written, ps_outcome))
               ELSE runs
    /\ ps_pc' = "idle"
    /\ UNCHANGED <<ps_script, page_html, nodes, ps_outcome, application_map,
                   map_before, map_initial, notMap>>

\* Every stop of a failing write, whichever section is written.
AllCuts == EveryCut(DashboardItems(FullDashboard))

\* Runs of the two scripts one after the other.
MapNext ==
    \/ StartRun(ParserScripts, FlowPages, MaxRuns)
    \/ ReadPage(CanFail)
    \/ HtmlHeader
    \/ HtmlHeaderChildren
    \/ HtmlMain
    \/ HtmlMainChildren
    \/ HtmlOpen(CanFail)
    \/ HtmlWrite(FlowCuts)
    \/ HistoryInputs
    \/ HistoryTables
    \/ HistoryOpen(CanFail)
    \/ HistoryWrite(FlowCuts)
    \/ ParserExit

\* One script on any page.
LandmarkNext ==
    \/ StartRun(ParserScripts, Pages, MaxSingleRuns)
    \/ ReadPage(CanFail)
    \/ HtmlHeader
    \/ HtmlHeaderChildren
    \/ HtmlMain
    \/ HtmlMainChildren
    \/ HtmlOpen(CanFail)
    \/ HtmlWrite(AllCuts)
    \/ HistoryInputs
    \/ HistoryTables
    \/ HistoryOpen(CanFail)
    \/ HistoryWrite(AllCuts)
    \/ ParserExit

(***************************************************************************)
(* Specifications: one per script or function under study.                 *)
(***************************************************************************)
InitClassifier == ClassifierInit /\ HeadingIdle /\ UxIdle /\ HvIdle /\ MapIdle
SpecClassifier == InitClassifier /\ [][ClassifierNext]_vars

InitHeadings == HeadingInit /\ ClassifierIdle /\ UxIdle /\ HvIdle /\ MapIdle
SpecHeadings == InitHeadings /\ [][HeadingNext]_vars

InitA11y == A11yInit /\ ClassifierIdle /\ HeadingIdle /\ HvIdle /\ MapIdle
SpecA11y == InitA11y /\ [][A11yNext]_vars

InitUx == UxInit /\ FlowPage /\ ClassifierIdle /\ HeadingIdle /\ HvIdle /\ MapIdle
SpecUX == InitUx /\ [][UxNext]_vars

InitProbe == ProbeInit /\ ProbePage /\ ClassifierIdle /\ HeadingIdle /\ HvIdle /\ MapIdle
SpecProbe == InitProbe /\ [][ProbeNext]_vars

InitRate == ProbeInit /\ RatePage /\ ClassifierIdle /\ HeadingIdle /\ HvIdle /\ MapIdle
SpecRate == InitRate /\ [][RateNext]_vars

InitHeaders == HvInit /\ ClassifierIdle /\ HeadingIdle /\ UxIdle /\ MapIdle
SpecHeaders == InitHeaders /\ [][HvNext]_vars

InitParsers == MapInit /\ ClassifierIdle /\ HeadingIdle /\ UxIdle /\ HvIdle
SpecParsers == InitParsers /\ [][MapNext]_vars

InitLandmarks == MapInit /\ ClassifierIdle /\ HeadingIdle /\ UxIdle /\ HvIdle
SpecLandmarks == InitLandmarks /\ [][LandmarkNext]_vars

(***************************************************************************)
(* Claims about the classifier.                                            *)
(***************************************************************************)

\* C1: classifying an absent node (None) never raises and yields "Unknown",
\* in html_parser.py and in history_parser.py.
C1_AbsentSafe ==
    (cl_pc = "done" /\ ~Truthy(tag)) =>
        (~component.raised /\ component.value = Unknown)

C1_Witness_html ==
    cl_pc = "done" /\ script = "html_parser" /\ tag = NoneTag
        /\ component = Returned(Unknown)

\* Index of the first token with the reserved prefix, 0 when there is none.
FirstMuiIndex(classes) ==
    IF \E k \in 1..Len(classes) : StartsWith(classes[k], MuiPrefix)
    THEN CHOOSE k \in 1..Len(classes) :
            /\ StartsWith(classes[k], MuiPrefix)
            /\ \A j \in 1..(k - 1) : ~StartsWith(classes[j], MuiPrefix)
    ELSE 0

\* The text of s before its first separator.
BeforeSeparator(s) ==
    IF \E k \in 1..Len(s) : s[k] = Separator
    THEN LET k == CHOOSE k \in 1..Len(s) :
                    s[k] = Separator /\ \A j \in 1..(k - 1) : s[j] # Separator
         IN  SubSeq(s, 1, k - 1)
    ELSE s

\* C2: for a present node the result is the first Mui-prefixed token of the
\* class list, cut before its first "-"; it is "Unknown" exactly when no
\* token starts with "Mui".
C2_FirstMatchWins ==
    (cl_pc = "done" /\ Truthy(tag)) =>
        LET k == FirstMuiIndex(tag.class)
        IN  /\ ~component.raised
            /\ (k # 0 => component.value = BeforeSeparator(tag.class[k]))
            /\ (component.value = Unknown <=> k = 0)

C2_Witness ==
    /\ cl_pc = "done"
    /\ tag = PresentTag(<< <<"f", "o", "o">>,
                           <<"M", "u", "i", "B", "-", "r">>,
                           <<"M", "u", "i", "T", "-", "r", "-", "x">> >>)
    /\ component = Returned(<<"M", "u", "i", "B">>)

(***************************************************************************)
(* Claims about the accessibility score and the heading walk.              *)
(***************************************************************************)
ReportedScoreOf(d) == RoundHalfEven(AccessibilityScore(d))

\* C6: the reported accessibility score is an integer in 0..100, and a
\* document with more images with alt text, more labelled inputs or more
\* landmarks (all else equal) never reports a lower score.
C6_ScoreBoundedMonotone ==
    results_accessibility.reported =>
        LET d == accessibility_data
        IN  /\ results_accessibility.score \in 0..100
            /\ \A wa \in (d.images.withAlt + 1)..d.images.total :
                  ReportedScoreOf([d EXCEPT !.images.withAlt = wa])
                      >= results_accessibility.score
            /\ \A lb \in (d.forms.labeled + 1)..d.forms.total :
                  ReportedScoreOf([d EXCEPT !.forms.labeled = lb])
                      >= results_accessibility.score
            /\ \A lm \in (d.navigation.landmarks + 1)..(MaxLandmarks + 1) :
                  ReportedScoreOf([d EXCEPT !.navigation.landmarks = lm])
                      >= results_accessibility.score

C6_Witness ==
    /\ results_accessibility.reported
    /\ accessibility_data.images = [total |-> 5, withAlt |-> 3]
    /\ accessibility_data.forms = [total |-> 4, labeled |-> 1]
    /\ accessibility_data.navigation.landmarks = 4
    /\ results_accessibility.score = 70

\* C7: the unrounded score is 20*withAlt/images (20 without images)
\* + 30*labeled/inputs (30 without inputs) + min(5*landmarks, 20)
\* + max(0, 20 - 5*issues) when a heading exists + 10 when a focusable
\* element exists.
C7_ScoreIsSumOfTerms ==
    pc \in {"a11y_report", "journey"} =>
        LET d == accessibility_data
            id == IF d.images.total > 0 THEN d.images.total ELSE 1
            in == IF d.images.total > 0 THEN d.images.withAlt ELSE 1
            fd == IF d.forms.total > 0 THEN d.forms.total ELSE 1
            fn == IF d.forms.total > 0 THEN d.forms.labeled ELSE 1
            lm == IF 5 * d.navigation.landmarks < 20
                  THEN 5 * d.navigation.landmarks ELSE 20
            hd == IF d.headings.total = 0 THEN 0
                  ELSE IF 20 - 5 * d.headings.hierarchyIssues > 0
                       THEN 20 - 5 * d.headings.hierarchyIssues ELSE 0
            fo == IF d.navigation.focusableElements >= 1 THEN 10 ELSE 0
        IN  accessibility_score.n * (id * fd) =
                accessibility_score.d *
                    (20 * in * fd + 30 * fn * id + (lm + hd + fo) * id * fd)

C7_Witness ==
    /\ pc = "a11y_report"
    /\ accessibility_data.images = [total |-> 3, withAlt |-> 1]
    /\ accessibility_data.forms = [total |-> 0, labeled |-> 0]
    /\ accessibility_data.navigation.landmarks = 5
    /\ accessibility_data.headings = [total |-> 5, hierarchyIssues |-> 5]
    /\ accessibility_data.navigation.focusableElements = 0
    /\ accessibility_score = [n |-> 170, d |-> 3]

\* C8: the letter grade is the one the thresholds 90/80/70 assign to the
\* reported (rounded) score.
C8_GradeMatchesReportedScore ==
    results_accessibility.reported =>
        results_accessibility.grade =
            (IF results_accessibility.score >= 90 THEN "A"
             ELSE IF results_accessibility.score >= 80 THEN "B"
             ELSE IF results_accessibility.score >= 70 THEN "C"
             ELSE "D")

LevelsOf(hs) == [k \in 1..Len(hs) |-> TagLevel(hs[k])]

\* C9 as claimed: the issue count is the number of headings whose level
\* exceeds the level of the heading immediately before it by more than one.
C9_IssuesCountJumpsBetweenHeadings ==
    h_result.returned =>
        LET lv == LevelsOf(headings)
        IN  h_result.hierarchyIssues =
                Cardinality({k \in 2..Len(lv) : lv[k] - lv[k - 1] > 1})

\* C9 as amended: the issue count is the number of headings whose level
\* exceeds the previous level by more than one, the previous level of the
\* first heading being 0; so a first heading of level 2 or more is an issue,
\* and equal, +1 and descending levels add none.
C9_IssuesCountJumpsFromZero ==
    h_result.returned =>
        LET lv == LevelsOf(headings)
            prev(k) == IF k = 1 THEN 0 ELSE lv[k - 1]
        IN  h_result.hierarchyIssues =
                Cardinality({k \in 1..Len(lv) : lv[k] - prev(k) > 1})

C9_Witness ==
    /\ h_result.returned
    /\ headings = <<"H2", "H2", "H4">>
    /\ h_result.hierarchyIssues = 2

(***************************************************************************)
(* Claims about the UX test run and the header validation run.             *)
(***************************************************************************)
ButtonEntries(k) ==
    {j \in 1..Len(interaction_results) : interaction_results[j].button = k}
InputEntries(k) ==
    {j \in 1..Len(input_results) : input_results[j].input = k}

\* The awaited calls of the input loop.
InputLoop == {"input_type", "input_placeholder", "input_fill", "input_wait",
              "input_value"}

\* C3: an exception while probing one button (or one input) never aborts
\* the run: the failing element gets exactly one entry with success = FALSE
\* and a message of at most 100 characters, every other probed element that
\* is acted on gets its own entry, all of the first 4 buttons and first 3
\* inputs are probed, and the only way into the outer handler is a failed
\* query, never a probe.
C3_ProbeFailuresIsolated ==
    /\ \A k \in 1..Len(button_env) :
          /\ button_env[k].kind = "raise" =>
                /\ Cardinality(ButtonEntries(k)) = 1
                /\ \A j \in ButtonEntries(k) :
                      /\ ~interaction_results[j].success
                      /\ interaction_results[j].error <= 100
                      /\ interaction_results[j].error <= button_env[k].errlen
          /\ button_env[k].kind = "clicked" =>
                /\ Cardinality(ButtonEntries(k)) = 1
                /\ \A j \in ButtonEntries(k) : interaction_results[j].success
    /\ \A k \in 1..Len(input_env) :
          /\ input_env[k].kind = "raise" =>
                /\ Cardinality(InputEntries(k)) = 1
                /\ \A j \in InputEntries(k) :
                      /\ ~input_results[j].success
                      /\ input_results[j].error <= 100
                      /\ input_results[j].error <= input_env[k].errlen
          /\ input_env[k].kind = "filled" =>
                /\ Cardinality(InputEntries(k)) = 1
                /\ \A j \in InputEntries(k) : input_results[j].success
    /\ pc \in {"query_inputs", "summary", "a11y_evaluate"} \cup InputLoop =>
          Len(button_env) = (IF buttons < 4 THEN buttons ELSE 4)
    /\ pc \in {"summary", "a11y_evaluate"} =>
          Len(input_env) = (IF inputs < 3 THEN inputs ELSE 3)
    /\ pc = "except" =>
          /\ Len(button_env) \in {0, IF buttons < 4 THEN buttons ELSE 4}
          /\ Len(input_env) = 0

C3_Witness ==
    /\ pc = "a11y_evaluate"
    /\ buttons = 3
    /\ button_env = << [kind |-> "clicked", errlen |-> 0],
                       [kind |-> "raise", errlen |-> 150],
                       [kind |-> "clicked", errlen |-> 0] >>
    /\ interaction_results =
           << [button |-> 1, success |-> TRUE, error |-> 0],
              [button |-> 2, success |-> FALSE, error |-> 100],
              [button |-> 3, success |-> TRUE, error |-> 0] >>
    /\ 2 \in clicked
    /\ inputs = 2
    /\ input_env = << [kind |-> "raise", errlen |-> 40],
                      [kind |-> "filled", errlen |-> 0] >>
    /\ Len(input_results) = 2
    /\ ~input_results[1].success
    /\ input_results[2].success

\* C4: once the browser has been launched, browser.close() has run by the
\* time the function is left, whatever the exit path: the function is left
\* through the finally clause, which calls it.
C4_BrowserClosedOnEveryExit ==
    (pc = "done" /\ browser # "none") => pending \in {"returned", "raised"}

\* C5: the header validation exits with status 0 exactly when no exception
\* occurred, each of the 7 header texts occurs once and all of them are
\* inside the single <thead>; otherwise it exits with status 1.
C5_ExitZeroIffHeadersOnceInThead ==
    hv_pc = "exited" =>
        /\ exit_status \in {0, 1}
        /\ exit_status = 0 <=>
              /\ success = "True" \/ (success = "False" /\ total_issues > 0)
              /\ page_theads = 1
              /\ \A h \in HeaderSet :
                    /\ CountOf(page_headers[h]) = 1
                    /\ InTheadText(page_headers[h])

\* C10: the performance grade is decided by the total load time alone:
\* excellent below 2000 ms, good from 2000 ms and below 4000 ms,
\* needs-improvement from 4000 ms, whatever the other metrics are.
C10_GradeFromLoadTimeOnly ==
    results_performance.set =>
        results_performance.grade =
            (IF results_performance.totalLoadTime < 2000 THEN "excellent"
             ELSE IF results_performance.totalLoadTime < 4000 THEN "good"
             ELSE "needs-improvement")

C10_Witness ==
    /\ results_performance.set
    /\ results_performance.totalLoadTime = 3000
    /\ perf_metrics.pageLoad = 9000
    /\ results_performance.grade = "good"

(***************************************************************************)
(* Claims about the parser scripts and application_map.md.                 *)
(***************************************************************************)
\* The section a script writes from the nodes it looked up.
SectionOf(s, f) ==
    IF s = "html_parser" THEN WriteLines(DashboardItems(f)).lines
    ELSE WriteLines(HistoryItems(f)).lines

\* The last k elements of a sequence.
Suffix(q, k) == SubSeq(q, Len(q) - k + 1, Len(q))

\* The leading parts of a section short of the whole.
CutsOf(section) ==
    {CutShort(section, c[1], c[2]) : c \in EveryCut(section)}

\* Two history runs in a row that both completed leave the section of the
\* first followed by the section of the second at the end of the file.
TwoSectionsInOrder ==
    (ps_pc = "idle" /\ Len(runs) >= 2
        /\ runs[Len(runs) - 1].script = "history_parser"
        /\ runs[Len(runs) - 1].outcome = "ok"
        /\ runs[Len(runs)].script = "history_parser"
        /\ runs[Len(runs)].outcome = "ok")
       => LET a == runs[Len(runs) - 1].section
              b == runs[Len(runs)].section
          IN  /\ Len(application_map) >= Len(a) + Len(b)
              /\ Suffix(application_map, Len(a) + Len(b)) = a \o b

\* C11 as stated: a run of the history script that reaches its write step
\* keeps every line application_map.md held, and whatever way the write step
\* ends, the file is then the prior content followed by the whole History
\* Page section; two history runs in a row leave the section of the first
\* followed by the section of the second.
C11_WriteStepAlwaysAppendsSection ==
    /\ []((ps_script = "history_parser" /\ ps_pc = "history_write")
              => application_map = map_before)
    /\ [][ (ps_script = "history_parser" /\ ps_pc = "history_write")
              => application_map' = map_before \o SectionOf(ps_script, nodes)
         ]_vars
    /\ []TwoSectionsInOrder

\* C11: a run of the history script never removes or changes a line
\* application_map.md held: between the open and the write the file is what
\* it was, and when the script has ended the file starts with the prior
\* content, followed by the whole History Page section when the run ended
\* normally and by nothing or a leading part of the section when it raised;
\* two completed history runs in a row leave the section of the first
\* followed by the section of the second at the end of the file.
C11_AppendKeepsPriorContent ==
    /\ (ps_script = "history_parser" /\ ps_pc = "history_write")
           => application_map = map_before
    /\ (ps_script = "history_parser" /\ ps_pc = "exit")
           => StartsWith(application_map, map_before)
    /\ (ps_script = "history_parser" /\ ps_pc = "exit" /\ ps_outcome = "ok")
           => application_map = map_before \o SectionOf(ps_script, nodes)
    /\ (ps_script = "history_parser" /\ ps_pc = "exit"
            /\ ps_outcome = "raised")
           => \/ application_map = map_before
              \/ \E cut \in CutsOf(SectionOf(ps_script, nodes)) :
                    application_map = map_before \o cut
    /\ TwoSectionsInOrder

C11_Witness ==
    /\ ps_pc = "idle"
    /\ Len(runs) = 3
    /\ runs[1].script = "html_parser"
    /\ runs[2].script = "history_parser"
    /\ runs[3].script = "history_parser"
    /\ \A k \in 1..3 : runs[k].outcome = "ok"
    /\ runs[2].section # runs[3].section
    /\ application_map = runs[1].section \o runs[2].section \o runs[3].section

\* The page of a script with every landmark in place, and its landmarks.
FullPage(s) == IF s = "html_parser" THEN FullDashboard ELSE FullHistory
LandmarksOf(s) ==
    IF s = "html_parser" THEN DashboardLandmarks ELSE HistoryLandmarks
LookupSteps ==
    {"header", "header_children", "main_content", "main_children",
     "history_inputs", "history_tables"}

\* C13: on a page that misses one landmark, whichever it is, no lookup
\* step of the script raises, and when the script has ended the report holds
\* the line of that landmark with the component Unknown.
C13_MissingLandmarkNeverFatal ==
    /\ [][ (/\ ps_pc \in LookupSteps
            /\ \E l \in LandmarksOf(ps_script) :
                  page_html = Without(FullPage(ps_script), l))
           => ps_outcome' # "raised" ]_vars
    /\ [](\A l \in LandmarksOf(ps_script) :
            (/\ ps_pc = "exit"
             /\ ps_outcome = "ok"
             /\ page_html = Without(FullPage(ps_script), l)
             /\ ReportLabel(l) # "")
            => \E k \in 1..Len(application_map) :
                  application_map[k] = Line(ReportLabel(l), Unknown))

\* The sections of a sequence of runs, one after the other.
RECURSIVE ConcatSections(_)
ConcatSections(rs) ==
    IF rs = <<>> THEN <<>>
    ELSE Head(rs).section \o ConcatSections(Tail(rs))

\* The position of the most recent dashboard run in the log, 0 without one.
LastDashboard(rs) ==
    LET ks == {k \in 1..Len(rs) : rs[k].script = "html_parser"}
    IN  IF ks = {} THEN 0 ELSE CHOOSE k \in ks : \A m \in ks : m <= k

\* C15: between runs the file holds the dashboard section of the most
\* recent completed dashboard run followed by the History Page sections of
\* the history runs completed after it, in run order; without any dashboard
\* run it holds what it held at first followed by the History Page section
\* of every completed history run.  A run that raised counts with what it
\* left in the file: a dashboard run whose write failed with the emptied
\* file and the leading part of its section, a history run with the part it
\* added.
C15_LastDashboardThenHistories ==
    ps_pc = "idle" =>
        LET d == LastDashboard(runs)
            later == SubSeq(runs, d + 1, Len(runs))
        IN  /\ \A k \in 1..Len(later) : later[k].script = "history_parser"
            /\ application_map =
                   (IF d = 0 THEN map_initial ELSE runs[d].section)
                       \o ConcatSections(later)

C15_Witness ==
    /\ ps_pc = "idle"
    /\ map_initial # <<>>
    /\ Len(runs) = 3
    /\ runs[1].script = "history_parser"
    /\ runs[2].script = "html_parser"
    /\ runs[3].script = "history_parser"
    /\ \A k \in 1..3 : runs[k].outcome = "ok"
    /\ application_map = runs[2].section \o runs[3].section

\* The steps of a script before application_map.md is open.
BeforeOpen == LookupSteps \cup {"read_page", "html_open", "history_open"}

\* While a script reads the page, looks its landmarks up and opens the file,
\* the file is untouched, and a run that raises there leaves it as it was.
ExtractionKeepsFile ==
    /\ [](ps_pc \in BeforeOpen => application_map = map_before)
    /\ [][ (ps_pc \in BeforeOpen /\ ps_outcome' = "raised")
              => application_map' = map_before ]_vars

\* What the file holds under the section a run writes: nothing for the
\* dashboard script, the prior content for the history script.
BaseOf(s) == IF s = "html_parser" THEN <<>> ELSE map_before

\* C17 as stated: the file is untouched until it is opened, a run that fails
\* before leaves it as it was, and the write step of a run that opened the
\* file always leaves its whole section in it.
C17_OpenedFileGetsWholeSection ==
    /\ ExtractionKeepsFile
    /\ [][ (ps_pc \in {"html_write", "history_write"})
              => application_map' =
                     BaseOf(ps_script) \o SectionOf(ps_script, nodes) ]_vars

\* C17: while a script reads the page and looks its landmarks up the file is
\* untouched; a run that raises before the file is open leaves the file as
\* it was when the run started; a run that ends normally has written its
\* whole section, onto the empty file for the dashboard script and after the
\* prior content for the history script; a run that raises in its write
\* step leaves nothing or a leading part of its section there.
C17_FailedExtractionLeavesFile ==
    /\ ExtractionKeepsFile
    /\ []((ps_pc = "exit" /\ ps_outcome = "ok")
              => application_map =
                     BaseOf(ps_script) \o SectionOf(ps_script, nodes))
    /\ [][ (ps_pc \in {"html_write", "history_write"})
              => \/ /\ ps_outcome' = "ok"
                    /\ application_map' =
                           BaseOf(ps_script) \o SectionOf(ps_script, nodes)
                 \/ /\ ps_outcome' = "raised"
                    /\ \E cut \in CutsOf(SectionOf(ps_script, nodes)) :
                          application_map' = BaseOf(ps_script) \o cut ]_vars

C17_Witness ==
    /\ ps_pc = "exit"
    /\ ps_outcome = "raised"
    /\ ps_script = "html_parser"
    /\ page_html = Without(FullDashboard, "main_content")
    /\ nodes["header"].present
    /\ map_before # <<>>
    /\ application_map = map_before

(***************************************************************************)
(* Claims about the results file, the probes and the assessment of the UX  *)
(* test run.                                                               *)
(***************************************************************************)
\* C12: ux-test-results.json is touched only once every audit step is done,
\* and outside the step that writes it the file never holds a part of a
\* run's results (nothing, or a document cut short).
C12_ResultsWrittenAtomically ==
    /\ json_file \notin {"absent", "previous"}
           => pc \in {"dump_results", "return", "except", "finally", "done"}
    /\ pc # "dump_results" => json_file \notin {"empty", "partial"}

\* C14: a probed button that is disabled is not clicked and has an entry in
\* the interaction results that marks it as skipped and is not a failure.
C14_DisabledButtonRecordedAsSkipped ==
    \A k \in 1..Len(button_env) :
        button_env[k].kind = "disabled" =>
            /\ k \notin clicked
            /\ ButtonEntries(k) # {}
            /\ \A j \in ButtonEntries(k) :
                  /\ "skipped" \in DOMAIN interaction_results[j]
                  /\ interaction_results[j].success # FALSE

\* C16: at most the first 4 buttons and the first 3 inputs are acted on,
\* the buttons before the inputs; the button results hold at most 4 entries
\* with indices in 1..4, the input results at most 3 with indices in 1..3,
\* and in both the indices increase strictly from entry to entry.
C16_ProbesCappedAndOrdered ==
    /\ Len(button_env) <= 4
    /\ Len(input_env) <= 3
    /\ clicked \subseteq 1..Min(buttons, 4)
    /\ Len(interaction_results) <= 4
    /\ Len(input_results) <= 3
    /\ \A j \in 1..Len(interaction_results) :
          /\ interaction_results[j].button \in 1..4
          /\ j > 1 => interaction_results[j - 1].button
                          < interaction_results[j].button
    /\ \A j \in 1..Len(input_results) :
          /\ input_results[j].input \in 1..3
          /\ j > 1 => input_results[j - 1].input < input_results[j].input
    /\ (input_env # <<>> \/ input_results # <<>> \/ pc \in InputLoop)
           => Len(button_env) = Min(buttons, 4)

C16_Witness ==
    /\ pc = "a11y_evaluate"
    /\ buttons = 6
    /\ inputs = 4
    /\ Len(button_env) = 4
    /\ Len(input_env) = 3
    /\ button_env[2].kind = "disabled"
    /\ Len(interaction_results) = 3
    /\ interaction_results[3].button = 4
    /\ Len(input_results) = 3

LowInteractionRate == Finding("Low interaction success rate", 0)
Reported(issue) == \E k \in 1..Len(issues) : issues[k] = issue

\* C18: successfulClicks is at most min(buttonsFound, 4); the success rate
\* is 100 * successfulClicks / max(buttonsFound, 1), within 0..100; the
\* issue 'Low interaction success rate' is reported exactly when the rate is
\* below 80, which is always so with 6 or more visible buttons and with none
\* (where the rate is 0).
C18_RateOverButtonsFound ==
    /\ results_interactions.set =>
           results_interactions.successfulClicks
               <= Min(results_interactions.buttonsFound, 4)
    /\ pc \in {"assess_responsive", "final_screenshot", "open_results",
               "dump_results", "return"} =>
           LET clicks == results_interactions.successfulClicks
               found == results_interactions.buttonsFound
               rate == interaction_success_rate
           IN  /\ rate.n * Max(found, 1) = 100 * clicks * rate.d
               /\ rate.n >= 0
               /\ rate.n <= 100 * rate.d
               /\ Reported(LowInteractionRate) <=> rate.n < 80 * rate.d
               /\ found >= 6 => Reported(LowInteractionRate)
               /\ found = 0 => (rate.n = 0 /\ Reported(LowInteractionRate))

C18_Witness ==
    /\ pc = "final_screenshot"
    /\ results_interactions.buttonsFound = 6
    /\ results_interactions.successfulClicks = 4
    /\ Reported(LowInteractionRate)

\* C19: the walk compares the first heading with level 0: before it the
\* previous level is 0, after it there is one issue when it is an h2 or
\* deeper and none when it is an h1; a page whose only heading is an h2 or
\* deeper has 1 issue and 15 heading points, one whose only heading is an
\* h1 has none and 20.
C19_FirstHeadingComparedWithZero ==
    /\ h_idx = 1 => (lastLevel = 0 /\ headingIssues = 0)
    /\ (h_idx = 2 /\ Len(headings) >= 1) =>
           headingIssues = (IF TagLevel(headings[1]) >= 2 THEN 1 ELSE 0)
    /\ (h_result.returned /\ Len(headings) = 1) =>
           LET deep == TagLevel(headings[1]) >= 2
               data == A11yRecord(0, 0, 0, 0, h_result.total,
                                  h_result.hierarchyIssues, 0, 0)
           IN  /\ h_result.hierarchyIssues = (IF deep THEN 1 ELSE 0)
               /\ HeadingPoints(data) = RatInt(IF deep THEN 15 ELSE 20)

C19_Witness ==
    /\ h_result.returned
    /\ headings = <<"H2">>
    /\ h_result.hierarchyIssues = 1
    /\ HeadingPoints(A11yRecord(0, 0, 0, 0, 1, 1, 0, 0)) = RatInt(15)

\* The recommendation that goes with each issue (lines 424-447).
RecommendationFor(text) ==
    CASE text = "Slow page load performance" ->
             "Optimize bundle size and loading strategies"
      [] text = "Accessibility compliance below 80%" ->
             "Improve form labels, alt text, and navigation landmarks"
      [] text = "JavaScript errors detected" ->
             "Review and fix JavaScript errors in console"
      [] text = "Low interaction success rate" ->
             "Review button functionality and error handling"
      [] text = "Responsive layout issues on viewports" ->
             "Fix horizontal scroll and layout overflow on mobile devices"

\* C20: the issues and the recommendations have the same length, at most
\* 5, the k-th recommendation is the one of the k-th issue, and the summary
\* of the saved file has equal issues_count and recommendations_count.
C20_IssuesPairedWithRecommendations ==
    /\ Len(issues) = Len(recommendations)
    /\ Len(issues) <= 5
    /\ \A k \in 1..Len(issues) :
          recommendations[k].text = RecommendationFor(issues[k].text)
    /\ saved_summary.set =>
          /\ saved_summary.issues_count = saved_summary.recommendations_count
          /\ saved_summary.issues_count = Len(issues)

C20_Witness ==
    /\ json_file = "complete"
    /\ saved_summary.set
    /\ saved_summary.issues_count = 5
    /\ Len(recommendations) = 5
    /\ recommendations[4].text = "Review button functionality and error handling"

====
